---- MODULE Spec2Model ----
(***************************************************************************)
(* Morgan outbound queue of index.js: the lead queue and its dedup set,    *)
(* the slot table with its call-id index, the Convoso status worker, the   *)
(* queue processor tick, the Vapi completion webhook and the poll sweep.   *)
(*                                                                         *)
(* Node runs one callback at a time.  A step of this model is one run of   *)
(* JavaScript from the point a callback or an await continuation is        *)
(* entered up to its next await on real I/O (or its return).  Promise      *)
(* continuations are microtasks: they run before any timer or socket       *)
(* callback.  The positions a continuation is entered at are the "urgent"  *)
(* positions below; while one is pending no other step is taken.           *)
(***************************************************************************)
EXTENDS Integers, Sequences, FiniteSets, TLC

\* ----- bounds of the model -----
NumSlots == 1
NumTicks == 2
MaxLeads == 2
MaxCalls == 2
MaxQueue == 2
MaxRows == 1
TickSlots == 3
TickLeads == 5
SweepCeiling == 10
SweepIds == 12
ScenarioCeiling == 100
ScenarioAdmitted == 110
ScenarioQueued == 20
MaxLaunches == 3
MaxPhoneIds == 3

Slots == 1..NumSlots
NoSlot == 0
TickIds == 1..NumTicks
LeadIds == 1..MaxLeads
CallIds == 1..MaxCalls
NoCall == 0
UnknownCallId == MaxCalls + 1
PullWaiter == 0
MAX_RETRIES_429 == 5
NoCeiling == 0
NoPhoneId == 0
ExplicitPhoneId == MaxPhoneIds + 1
TooManyRequests == 429
ServerError == 500

\* A lead as normalizeConvosoLead returns it: id 0 is a missing id.
Lead(i, p) == [id |-> i, phone |-> p]
NoLead == Lead(0, FALSE)
RawLeads == {Lead(i, p) : i \in 0..MaxLeads, p \in BOOLEAN}
RawRowSeqs == UNION {[1..n -> RawLeads] : n \in 0..MaxRows}

NoReq == [leadId |-> 0, status |-> "none", waiter |-> PullWaiter]
FreeSlot == [busy |-> FALSE, callId |-> NoCall, startedAt |-> FALSE]
NoFree == [callId |-> NoCall, ret |-> FALSE, called |-> FALSE]
NoReport == [handled |-> FALSE, callId |-> 0, leadId |-> 0, summary |-> FALSE,
             note |-> FALSE]
NoSweep == [ran |-> FALSE, byAdmit |-> FALSE, tracked |-> {}, entries |-> <<>>,
            removed |-> {}]

VARIABLES
  morganQueue,          \* pending leads, head first
  morganQueuedIds,      \* dedup set of lead ids
  morganSlots,          \* phoneNumberId -> {busy, callId, startedAt}
  morganCallToSlot,     \* callId -> phoneNumberId (NoSlot: no entry)
  convosoRequestQueue,  \* status updates waiting for the worker
  convosoQueueRunning,  \* the worker loop is active
  worker,               \* position of processConvosoQueue / updateConvosoLead
  tick,                 \* position of each processMorganQueueTick execution
  pull,                 \* position of the /jobs/morgan/pull-leads handler
  hydrate,              \* position of hydrateMorganQueueFromConvoso
  pollCall,             \* call id the poll sweep is querying (NoCall: none)
  morganEnabled,        \* isMorganEnabled()
  callState,            \* the voice platform's view of each call id
  callSlot,             \* origination id each call was launched on
  callLead,             \* lead id of each call in progress (metadata.convosoLeadId)
  lastFree,             \* result of the freeMorganSlotByCallId call of this step
  morganQueuedIdsTimestamps,  \* Map id -> time added, as its entries in insertion order
  maxQueuedIds,         \* MAX_QUEUED_IDS (NoCeiling: the ledger is unbounded)
  lastSweep,            \* what the cleanupOldQueuedIds call of this step found and removed
  lastReport,           \* the end-of-call report this step handled (NoReport: none)
  tickLog,              \* per tick: what it has done since it started (<<>>: not kept)
  vapiPhoneNumberIds,   \* voiceGateway.js: the configured origination ids
  vapiPhoneNumberIndex, \* voiceGateway.js: the rotation counter
  lastVapi429At,        \* rateLimitState: time of the last 429 of the voice platform
  launches,             \* every startOutboundCall invocation so far, in order
  now                   \* Date.now()

vars == <<morganQueue, morganQueuedIds, morganSlots, morganCallToSlot,
          convosoRequestQueue, convosoQueueRunning, worker, tick, pull,
          hydrate, pollCall, morganEnabled, callState, callSlot, callLead, lastFree,
          morganQueuedIdsTimestamps, maxQueuedIds, lastSweep, tickLog, lastReport,
          vapiPhoneNumberIds, vapiPhoneNumberIndex, lastVapi429At, launches, now>>

\* The variables of voiceGateway.js and rateLimitState.js, and those of index.js.
gatewayVars == <<vapiPhoneNumberIds, vapiPhoneNumberIndex, lastVapi429At, launches, now>>
indexVars == <<morganQueue, morganQueuedIds, morganSlots, morganCallToSlot,
               convosoRequestQueue, convosoQueueRunning, worker, tick, pull,
               hydrate, pollCall, morganEnabled, callState, callSlot, callLead, lastFree,
               morganQueuedIdsTimestamps, maxQueuedIds, lastSweep, tickLog, lastReport>>

\* The program state as one record, so that the functions of index.js can be
\* written as functions from state to state.
St ==
  [q |-> morganQueue, ids |-> morganQueuedIds, slots |-> morganSlots,
   map |-> morganCallToSlot, req |-> convosoRequestQueue,
   running |-> convosoQueueRunning, worker |-> worker, tick |-> tick,
   pull |-> pull, lastFree |-> NoFree, ts |-> morganQueuedIdsTimestamps,
   lastSweep |-> NoSweep, callLead |-> callLead, log |-> tickLog,
   lastReport |-> NoReport]

Commit(st) ==
  /\ morganQueue' = st.q
  /\ morganQueuedIds' = st.ids
  /\ morganSlots' = st.slots
  /\ morganCallToSlot' = st.map
  /\ convosoRequestQueue' = st.req
  /\ convosoQueueRunning' = st.running
  /\ worker' = st.worker
  /\ tick' = st.tick
  /\ pull' = st.pull
  /\ lastFree' = st.lastFree
  /\ morganQueuedIdsTimestamps' = st.ts
  /\ lastSweep' = st.lastSweep
  /\ callLead' = st.callLead
  /\ tickLog' = st.log
  /\ lastReport' = st.lastReport
  /\ UNCHANGED maxQueuedIds
  /\ UNCHANGED gatewayVars

IdleTick == [pc |-> "idle", slot |-> NoSlot, lead |-> NoLead]
\* attempt: the attempt argument of updateConvosoLead; failed: the last update
\* was rejected.
IdleWorker == [pc |-> "idle", cur |-> NoReq, attempt |-> 1, failed |-> FALSE, code |-> 0]
IdlePull == [pc |-> "idle", rows |-> <<>>]

\* ----- slot table -----

getFreeMorganSlotId(slots) ==
  IF \E s \in DOMAIN slots : ~slots[s].busy
  THEN CHOOSE s \in DOMAIN slots :
         ~slots[s].busy /\ \A r \in DOMAIN slots : r < s => slots[r].busy
  ELSE NoSlot

markMorganSlotBusy(st, phoneNumberId, callId) ==
  [st EXCEPT
     !.slots[phoneNumberId] = [busy |-> TRUE, callId |-> callId, startedAt |-> TRUE],
     !.map = IF callId # NoCall THEN [@ EXCEPT ![callId] = phoneNumberId] ELSE @]

\* Variant that clears busy and startedAt and leaves slot.callId.
freeMorganSlot_KeepsCallId(st, phoneNumberId) ==
  [st EXCEPT
     !.map = IF st.slots[phoneNumberId].callId # NoCall
             THEN [@ EXCEPT ![st.slots[phoneNumberId].callId] = NoSlot]
             ELSE @,
     !.slots[phoneNumberId] = [@ EXCEPT !.busy = FALSE, !.startedAt = FALSE]]

freeMorganSlot(st, phoneNumberId) ==
  [st EXCEPT
     !.map = IF st.slots[phoneNumberId].callId # NoCall
             THEN [@ EXCEPT ![st.slots[phoneNumberId].callId] = NoSlot]
             ELSE @,
     !.slots[phoneNumberId] = FreeSlot]

\* The index has no entry for a call id that was never issued.
SlotOfCall(st, callId) == IF callId \in DOMAIN st.map THEN st.map[callId] ELSE NoSlot

\* Variant without the two early returns: an id with no entry reports success.
freeMorganSlotByCallId_NoGuard(st, callId) ==
  IF SlotOfCall(st, callId) = NoSlot
  THEN [st EXCEPT !.lastFree = [callId |-> callId, ret |-> TRUE, called |-> TRUE]]
  ELSE [st EXCEPT
          !.slots[SlotOfCall(st, callId)] = FreeSlot,
          !.map[callId] = NoSlot,
          !.lastFree = [callId |-> callId, ret |-> TRUE, called |-> TRUE]]

\* Variant without morganCallToSlot.delete(callId): the index entry stays.
freeMorganSlotByCallId_KeepIndex(st, callId) ==
  IF SlotOfCall(st, callId) = NoSlot
  THEN [st EXCEPT !.lastFree = [callId |-> callId, ret |-> FALSE, called |-> TRUE]]
  ELSE [st EXCEPT
          !.slots[SlotOfCall(st, callId)] = FreeSlot,
          !.lastFree = [callId |-> callId, ret |-> TRUE, called |-> TRUE]]

freeMorganSlotByCallId(st, callId) ==
  IF SlotOfCall(st, callId) = NoSlot
  THEN [st EXCEPT !.lastFree = [callId |-> callId, ret |-> FALSE, called |-> TRUE]]
  ELSE [st EXCEPT
          !.slots[SlotOfCall(st, callId)] = FreeSlot,
          !.map[callId] = NoSlot,
          !.lastFree = [callId |-> callId, ret |-> TRUE, called |-> TRUE]]

\* ----- Convoso status worker -----

\* Variant that starts processConvosoQueue on every call.
enqueueConvosoUpdate_AlwaysStart(st, leadId, status, waiter) ==
  LET item == [leadId |-> leadId, status |-> status, waiter |-> waiter] IN
  IF st.running /\ st.worker.pc = "sleep"
  THEN [st EXCEPT !.req = Append(@, item)]
  ELSE [st EXCEPT !.running = TRUE,
                  !.worker = [IdleWorker EXCEPT !.pc = "request", !.cur = item]]

\* enqueueConvosoUpdate pushes the request and, when the worker is not running,
\* starts processConvosoQueue, which runs at once up to its first request.
\* Variant with unshift in place of push.
enqueueConvosoUpdate_Unshift(st, leadId, status, waiter) ==
  LET item == [leadId |-> leadId, status |-> status, waiter |-> waiter] IN
  IF st.running
  THEN [st EXCEPT !.req = <<item>> \o @]
  ELSE [st EXCEPT !.running = TRUE,
                  !.worker = [IdleWorker EXCEPT !.pc = "request", !.cur = item]]

enqueueConvosoUpdate(st, leadId, status, waiter) ==
  LET item == [leadId |-> leadId, status |-> status, waiter |-> waiter] IN
  IF st.running
  THEN [st EXCEPT !.req = Append(@, item)]
  ELSE [st EXCEPT !.running = TRUE,
                  !.worker = [IdleWorker EXCEPT !.pc = "request", !.cur = item]]

\* Where the awaiting caller continues once its update promise has settled
\* (a rejection is caught and logged by every caller).
ResumePc(pc) ==
  CASE pc = "awaitMC" -> "dequeued"
    [] pc = "awaitRequeueMQ" -> "freeNoCallId"
    [] pc = "awaitRevertMQ" -> "reenqueue"
    [] pc = "awaitEnqueueMQ" -> "freeCatch"
    [] OTHER -> pc

\* Variant without the .catch on the MC update of getNextMorganLead.
HasCatch_NotOnDequeue(pc) == pc \in {"awaitRequeueMQ", "awaitRevertMQ", "awaitEnqueueMQ"}

\* The awaits on a status update that carry a .catch handler.
HasCatch(pc) == pc \in {"awaitMC", "awaitRequeueMQ", "awaitRevertMQ", "awaitEnqueueMQ"}

\* resolve(res) / reject(err) of the queued request.  A rejection that no
\* .catch takes would leave through the try/catch around the caller's body:
\* the tick would return, the pull handler would answer 500.
Settle(st, waiter, ok) ==
  IF waiter = PullWaiter
  THEN IF ok \/ HasCatch("awaitEnqueueMQ")
       THEN [st EXCEPT !.pull.pc = "next"]
       ELSE [st EXCEPT !.pull = IdlePull]
  ELSE IF ok \/ HasCatch(st.tick[waiter].pc)
       THEN [st EXCEPT !.tick[waiter].pc = ResumePc(@)]
       ELSE [st EXCEPT !.tick[waiter] = IdleTick]

\* ----- lead queue -----

\* Variant without the morganQueuedIds.has(id) check.
enqueueMorganLead_NoDedupe(st, lead, waiter) ==
  IF lead.id = 0
  THEN [st |-> st, awaits |-> FALSE]
  ELSE LET pushed == [st EXCEPT !.q = Append(@, lead), !.ids = @ \cup {lead.id}] IN
       IF morganEnabled
       THEN [st |-> enqueueConvosoUpdate(pushed, lead.id, "MQ", waiter), awaits |-> TRUE]
       ELSE [st |-> pushed, awaits |-> FALSE]

enqueueMorganLead(st, lead, waiter) ==
  IF lead.id = 0 \/ lead.id \in st.ids
  THEN [st |-> st, awaits |-> FALSE]
  ELSE LET pushed == [st EXCEPT !.q = Append(@, lead), !.ids = @ \cup {lead.id}] IN
       IF morganEnabled
       THEN [st |-> enqueueConvosoUpdate(pushed, lead.id, "MQ", waiter), awaits |-> TRUE]
       ELSE [st |-> pushed, awaits |-> FALSE]

\* Variant that reads the head without morganQueue.shift().
getNextMorganLead_NoStatus(st, waiter) ==
  IF st.q = <<>>
  THEN [st |-> st, lead |-> NoLead, awaits |-> FALSE]
  ELSE LET lead == Head(st.q)
           shifted == [st EXCEPT !.q = Tail(@)]
           deleted == [shifted EXCEPT !.ids = @ \ {lead.id}]
       IN IF lead.id = 0
          THEN [st |-> shifted, lead |-> lead, awaits |-> FALSE]
          ELSE [st |-> deleted, lead |-> lead, awaits |-> FALSE]

getNextMorganLead_NoShift(st, waiter) ==
  IF st.q = <<>>
  THEN [st |-> st, lead |-> NoLead, awaits |-> FALSE]
  ELSE LET lead == Head(st.q)
           deleted == [st EXCEPT !.ids = @ \ {lead.id}]
       IN IF lead.id = 0
          THEN [st |-> st, lead |-> lead, awaits |-> FALSE]
          ELSE IF morganEnabled
               THEN [st |-> enqueueConvosoUpdate(deleted, lead.id, "MC", waiter),
                     lead |-> lead, awaits |-> TRUE]
               ELSE [st |-> deleted, lead |-> lead, awaits |-> FALSE]

getNextMorganLead(st, waiter) ==
  IF st.q = <<>>
  THEN [st |-> st, lead |-> NoLead, awaits |-> FALSE]
  ELSE LET lead == Head(st.q)
           shifted == [st EXCEPT !.q = Tail(@)]
           deleted == [shifted EXCEPT !.ids = @ \ {lead.id}]
       IN IF lead.id = 0
          THEN [st |-> shifted, lead |-> lead, awaits |-> FALSE]
          ELSE IF morganEnabled
               THEN [st |-> enqueueConvosoUpdate(deleted, lead.id, "MC", waiter),
                     lead |-> lead, awaits |-> TRUE]
               ELSE [st |-> deleted, lead |-> lead, awaits |-> FALSE]

\* Variant without the phone check.
SkipRow_NoPhoneCheck(st, lead) == lead.id = 0 \/ lead.id \in st.ids

\* The three continue conditions of the push loop.
SkipRow(st, lead) == lead.id = 0 \/ ~lead.phone \/ lead.id \in st.ids

\* The push loop shared by hydration and the periodic merge: rows without an
\* id or a phone and ids already tracked are skipped.
RECURSIVE PushRows(_, _)
PushRows(st, rows) ==
  IF rows = <<>> THEN st
  ELSE LET lead == Head(rows) IN
       IF SkipRow(st, lead)
       THEN PushRows(st, Tail(rows))
       ELSE PushRows([st EXCEPT !.q = Append(@, lead), !.ids = @ \cup {lead.id}],
                     Tail(rows))

\* Variant without the phone filter.
WithPhone_NoFilter(rows) == rows

\* .filter((l) => l.phone) of findLeadsForMorganByCallCount.
WithPhone(rows) == SelectSeq(rows, LAMBDA l : l.phone)

\* Rows the record store may answer with: the leads that are queued, held by a
\* tick or about to be enqueued stay within MaxQueue.
HeldLeads == Cardinality({t \in TickIds : tick[t].lead # NoLead})
RowsAllowed(rows) ==
  Len(morganQueue) + HeldLeads + Len(pull.rows) + Len(rows) <= MaxQueue

\* ----- positions -----

\* A continuation is pending: it runs before any timer, socket or I/O callback.
UrgentTickPcs == {"loop", "dequeued", "reenqueue", "freeNoCallId", "freeCatch"}
Urgent ==
  \/ hydrate = "init"
  \/ pull.pc = "next"
  \/ \E t \in TickIds : tick[t].pc \in UrgentTickPcs

Frame == UNCHANGED <<hydrate, pollCall, morganEnabled, callState, callSlot>>

\* ----- hydration at server start -----

\* isBusinessHours() reads the wall clock: its answer is an input of the step.
HydrateStart(open) ==
  /\ hydrate = "init"
  /\ IF open /\ morganEnabled
     THEN /\ Commit([St EXCEPT !.q = <<>>, !.ids = {}])
          /\ hydrate' = "fetch"
     ELSE /\ Commit(St)
          /\ hydrate' = "done"
  /\ UNCHANGED <<pollCall, morganEnabled, callState, callSlot>>

HydrateFetched(rows) ==
  /\ ~Urgent
  /\ hydrate = "fetch"
  /\ RowsAllowed(rows)
  /\ Commit(PushRows(St, rows))
  /\ hydrate' = "done"
  /\ UNCHANGED <<pollCall, morganEnabled, callState, callSlot>>

\* ----- periodic merge -----

\* mergeMorganQueueFromMQ passed its gates and its search has answered.
MergeFetched(rows) ==
  /\ ~Urgent
  /\ morganEnabled
  /\ RowsAllowed(rows)
  /\ Commit(PushRows(St, WithPhone(rows)))
  /\ Frame

\* ----- POST /jobs/morgan/pull-leads -----

\* The handler passed its gates and findLeadsForMorganByCallCount has answered.
PullFetched(rows) ==
  /\ ~Urgent
  /\ pull.pc = "idle"
  /\ morganEnabled
  /\ RowsAllowed(rows)
  /\ Commit([St EXCEPT !.pull = [pc |-> "next", rows |-> WithPhone(rows)]])
  /\ Frame

\* for (const lead of leads) await enqueueMorganLead(lead)
PullNext ==
  /\ pull.pc = "next"
  /\ IF pull.rows = <<>>
     THEN Commit([St EXCEPT !.pull = IdlePull])
     ELSE LET r == enqueueMorganLead([St EXCEPT !.pull.rows = Tail(@)],
                                     Head(pull.rows), PullWaiter)
          IN Commit([r.st EXCEPT !.pull.pc = IF r.awaits THEN "awaitMQ" ELSE "next"])
  /\ Frame

\* ----- processConvosoQueue / updateConvosoLead -----

\* await updateConvosoLead(leadId, payload) settles: the store answered 2xx
\* (ok) or with an error other than 429; the promise is resolved or rejected,
\* then the worker sleeps.  In Spec the 429 retries are inside this one await
\* and a give-up is the rejection; SpecWorker takes them step by step.
WorkerResponse(ok) ==
  /\ ~Urgent
  /\ worker.pc = "request"
  /\ Commit(Settle([St EXCEPT !.worker = [IdleWorker EXCEPT !.pc = "sleep",
                                                            !.failed = ~ok]],
                    worker.cur.waiter, ok))
  /\ Frame

\* Variant with attempt > MAX_RETRIES_429 as the give-up test.
Worker429_OffByOne ==
  /\ ~Urgent
  /\ worker.pc = "request"
  /\ IF worker.attempt > MAX_RETRIES_429
     THEN Commit(Settle([St EXCEPT !.worker = [IdleWorker EXCEPT !.pc = "sleep",
                                                                !.failed = TRUE]],
                        worker.cur.waiter, FALSE))
     ELSE Commit([St EXCEPT !.worker.pc = "backoff"])
  /\ Frame

\* The store answered 429: back off and retry, or give up at MAX_RETRIES_429.
Worker429 ==
  /\ ~Urgent
  /\ worker.pc = "request"
  /\ IF worker.attempt >= MAX_RETRIES_429
     THEN Commit(Settle([St EXCEPT !.worker = [IdleWorker EXCEPT !.pc = "sleep",
                                                                !.failed = TRUE]],
                        worker.cur.waiter, FALSE))
     ELSE Commit([St EXCEPT !.worker.pc = "backoff"])
  /\ Frame

\* sleep(delay) is over: updateConvosoLead(leadId, payloadFields, attempt + 1)
WorkerBackoffOver ==
  /\ ~Urgent
  /\ worker.pc = "backoff"
  /\ Commit([St EXCEPT !.worker.pc = "request", !.worker.attempt = @ + 1])
  /\ Frame

\* Variant whose loop ends after one request, whatever is queued.
WorkerWake_EndsLoop ==
  /\ ~Urgent
  /\ worker.pc = "sleep"
  /\ Commit([St EXCEPT !.running = FALSE, !.worker = IdleWorker])
  /\ Frame

\* sleep(CONVOSO_INTERVAL_MS) is over: the while loop takes the next request
WorkerWake ==
  /\ ~Urgent
  /\ worker.pc = "sleep"
  /\ IF convosoRequestQueue # <<>>
     THEN Commit([St EXCEPT !.req = Tail(@),
                            !.worker = [IdleWorker EXCEPT
                                          !.pc = "request",
                                          !.cur = Head(convosoRequestQueue)]])
     ELSE Commit([St EXCEPT !.running = FALSE, !.worker = IdleWorker])
  /\ Frame

\* Status codes the store answers with: success, a client error, rate limit,
\* a server error.
StoreStatusCodes == {200, 400, TooManyRequests, ServerError}

\* updateConvosoLead on the answer of axios.get: the data on 2xx; on 429 a
\* retry after the backoff, or a throw at MAX_RETRIES_429; a throw otherwise.
updateConvosoLead(statusCode, attempt) ==
  IF statusCode \in 200..299 THEN "resolve"
  ELSE IF statusCode = TooManyRequests
       THEN IF attempt >= MAX_RETRIES_429 THEN "reject" ELSE "retry"
       ELSE "reject"

\* The store answered the request of the worker with statusCode.
StoreAnswers(statusCode) ==
  /\ ~Urgent
  /\ worker.pc = "request"
  /\ LET outcome == updateConvosoLead(statusCode, worker.attempt) IN
     IF outcome = "retry"
     THEN Commit([St EXCEPT !.worker.pc = "backoff", !.worker.code = statusCode])
     ELSE Commit(Settle([St EXCEPT !.worker = [IdleWorker EXCEPT !.pc = "sleep",
                                                                !.failed = (outcome = "reject"),
                                                                !.code = statusCode]],
                        worker.cur.waiter, outcome = "resolve"))
  /\ Frame

\* ----- what a tick has done so far -----

\* dequeuedThisTick is counted up to this value.
MaxCounted == TickSlots + 1

\* A tick that has just passed its gates (isBusinessHours() and
\* isMorganEnabled() both true): the number of free slots it found,
\* dequeuedThisTick, the leads it has handed to startOutboundCall, whether it
\* handed one of them twice, and the leads whose launch failed.
NewTickLog(slots) ==
  [freeAtStart |-> Cardinality({s \in DOMAIN slots : ~slots[s].busy}),
   dequeuedThisTick |-> 0, leads |-> {}, again |-> FALSE, failed |-> {},
   open |-> TRUE, enabled |-> TRUE]

LogStart(st, t) ==
  IF t \in DOMAIN st.log THEN [st EXCEPT !.log[t] = NewTickLog(st.slots)] ELSE st

\* dequeuedThisTick += 1, then startOutboundCall for the lead.
LogLaunch(st, t, leadId) ==
  IF t \in DOMAIN st.log
  THEN [st EXCEPT !.log[t].dequeuedThisTick = IF @ < MaxCounted THEN @ + 1 ELSE @,
                  !.log[t].again = @ \/ leadId \in st.log[t].leads,
                  !.log[t].leads = @ \cup {leadId}]
  ELSE st

LogFailure(st, t, leadId) ==
  IF t \in DOMAIN st.log THEN [st EXCEPT !.log[t].failed = @ \cup {leadId}] ELSE st

\* ----- processMorganQueueTick -----

\* A timer firing starts a new execution; executions are interchangeable, so
\* the new one takes the lowest unused index.  The tick passed both gates.
TickStart(t) ==
  /\ ~Urgent
  /\ tick[t].pc = "idle"
  /\ \A u \in TickIds : u < t => tick[u].pc # "idle"
  /\ morganEnabled
  /\ Commit(LogStart([St EXCEPT !.tick[t].pc = "loop"], t))
  /\ Frame

\* Variant that does not look at the business hours.
PassesGates_IgnoresHours(open, enabled) == enabled

\* The two gates at the head of processMorganQueueTick.
PassesGates(open, enabled) == open /\ enabled

\* What the gates answered when the tick was invoked.
LogGates(st, t, open, enabled) ==
  IF t \in DOMAIN st.log
  THEN [st EXCEPT !.log[t] = [NewTickLog(st.slots) EXCEPT !.open = open, !.enabled = enabled]]
  ELSE st

\* The timer invokes processMorganQueueTick; isBusinessHours() answers open.
\* A tick that does not pass its gates returns at once.
TickInvoked(t, open) ==
  /\ ~Urgent
  /\ tick[t].pc = "idle"
  /\ \A u \in TickIds : u < t => tick[u].pc # "idle"
  /\ IF PassesGates(open, morganEnabled)
     THEN Commit(LogGates([St EXCEPT !.tick[t].pc = "loop"], t, open, morganEnabled))
     ELSE Commit(LogGates(St, t, open, morganEnabled))
  /\ Frame

\* Top of the while loop: pick a free slot, then await getNextMorganLead().
TickLoop(t) ==
  /\ tick[t].pc = "loop"
  /\ LET freeSlotId == getFreeMorganSlotId(morganSlots) IN
     IF freeSlotId = NoSlot
     THEN Commit([St EXCEPT !.tick[t] = IdleTick])
     ELSE LET r == getNextMorganLead(St, t) IN
          Commit([r.st EXCEPT
                    !.tick[t] = [pc |-> IF r.awaits THEN "awaitMC" ELSE "dequeued",
                                 slot |-> freeSlotId, lead |-> r.lead]])
  /\ Frame

\* getNextMorganLead has returned: break on no lead or no phone, else launch.
TickDequeued(t) ==
  /\ tick[t].pc = "dequeued"
  /\ IF tick[t].lead = NoLead \/ ~tick[t].lead.phone
     THEN Commit([St EXCEPT !.tick[t] = IdleTick])
     ELSE Commit(LogLaunch([St EXCEPT !.tick[t].pc = "awaitLaunch"], t, tick[t].lead.id))
  /\ Frame

\* The call id the voice platform gives its next call.
NextCallId ==
  CHOOSE c \in DOMAIN callState :
    callState[c] = "none" /\ \A d \in DOMAIN callState : d < c => callState[d] # "none"

\* startOutboundCall resolved with a call id.
LaunchCallId(t) ==
  /\ ~Urgent
  /\ tick[t].pc = "awaitLaunch"
  /\ \E c \in DOMAIN callState : callState[c] = "none"
  /\ Commit([markMorganSlotBusy(St, tick[t].slot, NextCallId)
               EXCEPT !.tick[t] = [IdleTick EXCEPT !.pc = "loop"],
                      !.callLead[NextCallId] = tick[t].lead.id])
  /\ callState' = [callState EXCEPT ![NextCallId] = "live"]
  /\ callSlot' = [callSlot EXCEPT ![NextCallId] = tick[t].slot]
  /\ UNCHANGED <<hydrate, pollCall, morganEnabled>>

\* Variant that puts the lead back with push instead of unshift.
RequeueFront_AtTail(st, t) ==
  LET lead == st.tick[t].lead
      pushed == [st EXCEPT !.q = Append(@, lead)]
      added == [pushed EXCEPT !.ids = @ \cup {lead.id}]
  IN IF lead.id = 0
     THEN [pushed EXCEPT !.tick[t].pc = "freeNoCallId", !.tick[t].lead = NoLead]
     ELSE IF morganEnabled
          THEN [enqueueConvosoUpdate(added, lead.id, "MQ", t)
                  EXCEPT !.tick[t].pc = "awaitRequeueMQ", !.tick[t].lead = NoLead]
          ELSE [added EXCEPT !.tick[t].pc = "freeNoCallId", !.tick[t].lead = NoLead]

\* The no-call-id branch up to its await: unshift, re-add the id, submit MQ.
RequeueFront(st, t) ==
  LET lead == st.tick[t].lead
      unshifted == [st EXCEPT !.q = <<lead>> \o @]
      added == [unshifted EXCEPT !.ids = @ \cup {lead.id}]
  IN IF lead.id = 0
     THEN [unshifted EXCEPT !.tick[t].pc = "freeNoCallId", !.tick[t].lead = NoLead]
     ELSE IF morganEnabled
          THEN [enqueueConvosoUpdate(added, lead.id, "MQ", t)
                  EXCEPT !.tick[t].pc = "awaitRequeueMQ", !.tick[t].lead = NoLead]
          ELSE [added EXCEPT !.tick[t].pc = "freeNoCallId", !.tick[t].lead = NoLead]

\* startOutboundCall resolved without a call id.
LaunchNoCallId(t) ==
  /\ ~Urgent
  /\ tick[t].pc = "awaitLaunch"
  /\ Commit(LogFailure(RequeueFront(St, t), t, tick[t].lead.id))
  /\ Frame

\* startOutboundCall threw: revert the status to MQ first.
LaunchError(t) ==
  /\ ~Urgent
  /\ tick[t].pc = "awaitLaunch"
  /\ LET logged == LogFailure(St, t, tick[t].lead.id) IN
     IF morganEnabled
     THEN Commit([enqueueConvosoUpdate(logged, tick[t].lead.id, "MQ", t)
                    EXCEPT !.tick[t].pc = "awaitRevertMQ"])
     ELSE Commit([logged EXCEPT !.tick[t].pc = "reenqueue"])
  /\ Frame

\* catch branch, after the revert: await enqueueMorganLead(lead)
TickReenqueue(t) ==
  /\ tick[t].pc = "reenqueue"
  /\ LET r == enqueueMorganLead(St, tick[t].lead, t) IN
     Commit([r.st EXCEPT !.tick[t].pc = IF r.awaits THEN "awaitEnqueueMQ" ELSE "freeCatch",
                         !.tick[t].lead = NoLead])
  /\ Frame

\* Variant in which a failed launch ends the tick once its slot is freed.
TickFreeSlot_EndsTick(t) ==
  /\ tick[t].pc \in {"freeNoCallId", "freeCatch"}
  /\ Commit([freeMorganSlot(St, tick[t].slot) EXCEPT !.tick[t] = IdleTick])
  /\ Frame

\* freeMorganSlot(freeSlotId) of either failure branch, then the loop goes on.
TickFreeSlot(t) ==
  /\ tick[t].pc \in {"freeNoCallId", "freeCatch"}
  /\ Commit([freeMorganSlot(St, tick[t].slot)
               EXCEPT !.tick[t] = [IdleTick EXCEPT !.pc = "loop"]])
  /\ Frame

\* ----- the voice platform, its webhook and the poll sweep -----

CallEnds(c) ==
  /\ ~Urgent
  /\ callState[c] = "live"
  /\ callState' = [callState EXCEPT ![c] = "ended"]
  /\ Commit([St EXCEPT !.callLead[c] = 0])
  /\ UNCHANGED <<hydrate, pollCall, morganEnabled, callSlot>>

Ended(c) == c \in CallIds /\ callState[c] \in {"ended", "reported"}

\* POST /webhooks/vapi with type end-of-call-report, possibly repeated, or
\* for a call id this process does not know.
VapiWebhook(c) ==
  /\ ~Urgent
  /\ c = UnknownCallId \/ Ended(c)
  /\ Commit(freeMorganSlotByCallId(St, c))
  /\ callState' = IF c \in CallIds THEN [callState EXCEPT ![c] = "reported"] ELSE callState
  /\ UNCHANGED <<hydrate, pollCall, morganEnabled, callSlot>>

\* Variant that posts the summary whether or not a lead id was recovered.
PostsNote_NoLeadCheck(leadId, summary) == summary

\* The handler posts the call summary with addLeadNote when it has recovered
\* a lead id and the payload carries a summary.
PostsNote(leadId, summary) == leadId # 0 /\ summary

\* POST /webhooks/vapi with type end-of-call-report, whole: the slot is freed
\* by call id; with a lead id in the metadata the status is left as it is and
\* the summary, if any, goes to the store as a note, outside the worker.
VapiWebhookReport(c, leadId, summary) ==
  /\ ~Urgent
  /\ c = UnknownCallId \/ Ended(c)
  /\ Commit([freeMorganSlotByCallId(St, c)
               EXCEPT !.lastReport = [handled |-> TRUE, callId |-> c, leadId |-> leadId,
                                      summary |-> summary,
                                      note |-> PostsNote(leadId, summary)]])
  /\ callState' = IF c \in CallIds THEN [callState EXCEPT ![c] = "reported"] ELSE callState
  /\ UNCHANGED <<hydrate, pollCall, morganEnabled, callSlot>>

\* Poll sweep: an index entry whose slot is busy is queried.
PollQuery(c) ==
  /\ ~Urgent
  /\ pollCall = NoCall
  /\ morganCallToSlot[c] # NoSlot
  /\ morganSlots[morganCallToSlot[c]].busy
  /\ pollCall' = c
  /\ Commit(St)
  /\ UNCHANGED <<hydrate, morganEnabled, callState, callSlot>>

\* Variant that only logs an ended call.
PollAnswer_OnlyLogs(ok) ==
  /\ ~Urgent
  /\ pollCall # NoCall
  /\ pollCall' = NoCall
  /\ Commit(St)
  /\ UNCHANGED <<hydrate, morganEnabled, callState, callSlot>>

\* getVapiCall answered (null on an error); an ended call is freed by call id.
PollAnswer(ok) ==
  /\ ~Urgent
  /\ pollCall # NoCall
  /\ pollCall' = NoCall
  /\ IF ok /\ Ended(pollCall)
     THEN /\ Commit(freeMorganSlotByCallId(St, pollCall))
          /\ callState' = [callState EXCEPT ![pollCall] = "reported"]
     ELSE /\ Commit(St)
          /\ UNCHANGED callState
  /\ UNCHANGED <<hydrate, morganEnabled, callSlot>>

\* voiceGateway.js and rateLimitState.js as loaded: no launch yet.
GatewayAtLoad ==
  /\ vapiPhoneNumberIndex = 0
  /\ lastVapi429At = 0
  /\ launches = <<>>
  /\ now = 0

\* ----- specification -----

Init ==
  /\ morganQueue = <<>>
  /\ morganQueuedIds = {}
  /\ morganSlots = [s \in Slots |-> FreeSlot]
  /\ morganCallToSlot = [c \in CallIds |-> NoSlot]
  /\ convosoRequestQueue = <<>>
  /\ convosoQueueRunning = FALSE
  /\ worker = IdleWorker
  /\ tick = [t \in TickIds |-> IdleTick]
  /\ pull = IdlePull
  /\ hydrate = "init"
  /\ pollCall = NoCall
  /\ morganEnabled \in BOOLEAN
  /\ callState = [c \in CallIds |-> "none"]
  /\ callSlot = [c \in CallIds |-> NoSlot]
  /\ callLead = [c \in CallIds |-> 0]
  /\ lastFree = NoFree
  /\ morganQueuedIdsTimestamps = <<>>
  /\ maxQueuedIds = NoCeiling
  /\ lastSweep = NoSweep
  /\ lastReport = NoReport
  /\ tickLog = <<>>
  /\ vapiPhoneNumberIds = <<>>
  /\ GatewayAtLoad

Next ==
  \/ \E open \in BOOLEAN : HydrateStart(open)
  \/ \E rows \in RawRowSeqs : HydrateFetched(rows)
  \/ \E rows \in RawRowSeqs : MergeFetched(rows)
  \/ \E rows \in RawRowSeqs : PullFetched(rows)
  \/ PullNext
  \/ \E ok \in BOOLEAN : WorkerResponse(ok)
  \/ WorkerWake
  \/ \E t \in TickIds : TickStart(t)
  \/ \E t \in TickIds : TickLoop(t)
  \/ \E t \in TickIds : TickDequeued(t)
  \/ \E t \in TickIds : LaunchCallId(t)
  \/ \E t \in TickIds : LaunchNoCallId(t)
  \/ \E t \in TickIds : LaunchError(t)
  \/ \E t \in TickIds : TickReenqueue(t)
  \/ \E t \in TickIds : TickFreeSlot(t)
  \/ \E c \in CallIds : CallEnds(c)
  \/ \E c \in CallIds \cup {UnknownCallId} : VapiWebhook(c)
  \/ \E c \in CallIds : PollQuery(c)
  \/ \E ok \in BOOLEAN : PollAnswer(ok)

Spec == Init /\ [][Next]_vars

\* ----- properties -----

Range(f) == {f[i] : i \in DOMAIN f}
QueueIds == {morganQueue[i].id : i \in DOMAIN morganQueue}
BusySlots == {s \in Slots : morganSlots[s].busy}

\* Leads a tick has dequeued and has neither requeued nor bound to a call.
HeldByTick == {t \in TickIds : tick[t].lead # NoLead}
\* Calls launched for a dequeued lead and not yet reported complete.
UnreportedCalls == {c \in CallIds : callState[c] \in {"live", "ended"}}

\* C1: in every reachable state the number of leads in flight (dequeued for
\* dispatch and neither requeued nor reported complete) is at most the number
\* of slots.
C1_AtMostNInFlight ==
  Cardinality(HeldByTick) + Cardinality(UnreportedCalls) <= NumSlots

\* A tick has started a launch on its selected slot and the launch has not
\* settled yet.
LaunchOutstanding(t) == tick[t].pc = "awaitLaunch"

\* C2: a free slot one tick has selected for a launch is not selected by
\* another tick before that launch has settled and the slot has been freed,
\* so no two launches are outstanding on the same slot.
C2_ExclusiveSlotClaim ==
  \A t, u \in TickIds :
    (t # u /\ LaunchOutstanding(t) /\ LaunchOutstanding(u))
      => tick[t].slot # tick[u].slot

\* C3: the call-id index is the exact inverse of the slot table over busy
\* slots: call id c maps to slot s if and only if s is busy with call id c.
C3_IndexIsInverse ==
  \A c \in CallIds : \A s \in Slots :
    (morganCallToSlot[c] = s) <=> (morganSlots[s].busy /\ morganSlots[s].callId = c)

\* A tick lets go of the lead it holds in this step.
Releases(t) == tick[t].lead # NoLead /\ tick'[t].lead = NoLead

\* The slot of tick t is bound, after this step, to a call id issued in it.
BoundByNewCall(t) ==
  \E c \in CallIds :
    /\ callState[c] = "none" /\ callState'[c] = "live"
    /\ morganSlots'[tick[t].slot].busy
    /\ morganSlots'[tick[t].slot].callId = c
    /\ morganCallToSlot'[c] = tick[t].slot

\* C4: no lead is lost.  A step that takes the head off the queue hands it to
\* a tick, which holds it until its launch has settled; when the tick lets go
\* of the lead, the lead is bound to a busy slot through the returned call id
\* or is back in the queue.
C4_NoLeadLost ==
  [][/\ (morganQueue # <<>> /\ morganQueue' = Tail(morganQueue))
          => \E t \in TickIds : tick[t].lead = NoLead /\ tick'[t].lead = Head(morganQueue)
     /\ \A t \in TickIds :
          Releases(t) => \/ BoundByNewCall(t)
                         \/ tick[t].lead \in Range(morganQueue')]_vars

\* A launch has failed and its lead has been put back in the queue.
C4_Witness ==
  \E t \in TickIds :
    /\ tick[t].pc \in {"awaitRequeueMQ", "awaitEnqueueMQ"}
    /\ morganQueue # <<>>

\* C5: when a launch throws, the lead is returned to the head of the queue
\* (it is the next lead a dequeue returns) and the slot to the free pool.
C5_ErrorRequeuesAtHead ==
  [][\A t \in TickIds :
       tick[t].pc = "reenqueue" => Head(morganQueue') = tick[t].lead]_vars

\* C6: every lead id present in the queue is tracked by the dedup ledger.
C6_QueueIdsTracked == QueueIds \subseteq morganQueuedIds

\* Behaviours in which leads enter the queue through enqueueMorganLead (pull
\* requests, the catch branch of the tick) and the hydration and merge pushes
\* only: every action but the unshift of the no-call-id branch.
NextEnqueue ==
  \/ \E open \in BOOLEAN : HydrateStart(open)
  \/ \E rows \in RawRowSeqs : HydrateFetched(rows)
  \/ \E rows \in RawRowSeqs : MergeFetched(rows)
  \/ \E rows \in RawRowSeqs : PullFetched(rows)
  \/ PullNext
  \/ \E ok \in BOOLEAN : WorkerResponse(ok)
  \/ WorkerWake
  \/ \E t \in TickIds : TickStart(t)
  \/ \E t \in TickIds : TickLoop(t)
  \/ \E t \in TickIds : TickDequeued(t)
  \/ \E t \in TickIds : LaunchCallId(t)
  \/ \E t \in TickIds : LaunchError(t)
  \/ \E t \in TickIds : TickReenqueue(t)
  \/ \E t \in TickIds : TickFreeSlot(t)
  \/ \E c \in CallIds : CallEnds(c)
  \/ \E c \in CallIds \cup {UnknownCallId} : VapiWebhook(c)
  \/ \E c \in CallIds : PollQuery(c)
  \/ \E ok \in BOOLEAN : PollAnswer(ok)

SpecEnqueue == Init /\ [][NextEnqueue]_vars

\* enqueueMorganLead is about to be called with a lead whose id is tracked.
DuplicateEnqueue ==
  \/ /\ pull.pc = "next"
     /\ pull.rows # <<>>
     /\ Head(pull.rows).id \in morganQueuedIds
  \/ \E t \in TickIds :
       /\ tick[t].pc = "reenqueue"
       /\ tick[t].lead.id \in morganQueuedIds

NoIndexEntry(c) == c \notin CallIds \/ morganCallToSlot[c] = NoSlot

\* C8: freeMorganSlotByCallId on a call id with no matching slot returns
\* false and changes no slot, no index entry and no queue state.
C8_UnknownCallIdNoOp ==
  [][(lastFree'.called /\ NoIndexEntry(lastFree'.callId))
       => /\ ~lastFree'.ret
          /\ UNCHANGED <<morganSlots, morganCallToSlot, morganQueue,
                         morganQueuedIds>>]_vars

\* A completion for an unknown call id arrived while a slot was busy.
C8_Witness ==
  /\ lastFree = [callId |-> UnknownCallId, ret |-> FALSE, called |-> TRUE]
  /\ BusySlots # {}

\* C9: of a completion push and a poll result for one call id, in either
\* order, the first frees the slot the index gives for the call and the
\* second returns false and changes no state, also when the slot has been
\* bound to a new call in between.
C9_SecondSignalNoOp ==
  [][\A c \in CallIds :
       (lastFree'.called /\ lastFree'.callId = c)
         => IF callState[c] = "reported"
            THEN /\ ~lastFree'.ret
                 /\ UNCHANGED <<morganSlots, morganCallToSlot, morganQueue,
                                morganQueuedIds>>
            ELSE morganCallToSlot[c] # NoSlot
                   => /\ lastFree'.ret
                      /\ ~morganSlots'[morganCallToSlot[c]].busy
                      /\ morganCallToSlot'[c] = NoSlot]_vars

\* The second signal for a call found nothing to free while the slot the call
\* ran on is busy with a later call.
C9_Witness ==
  \E c \in CallIds :
    /\ lastFree = [callId |-> c, ret |-> FALSE, called |-> TRUE]
    /\ callState[c] = "reported"
    /\ morganSlots[callSlot[c]].busy
    /\ morganSlots[callSlot[c]].callId # c

\* C10: when a launch returns no call id, the lead reappears at the head of
\* the queue and in the ledger, and freeing the slot leaves the number of
\* busy slots as it was.
C10_NoCallIdKeepsBusyCount ==
  [][\A t \in TickIds :
       /\ (tick[t].pc = "awaitLaunch" /\ tick'[t].pc = "awaitRequeueMQ")
            => /\ Head(morganQueue') = tick[t].lead
               /\ tick[t].lead.id \in morganQueuedIds'
       /\ tick[t].pc = "freeNoCallId"
            => Cardinality(BusySlots') = Cardinality(BusySlots)]_vars

\* ----- one tick on its own -----

\* n free slots, m queued leads in the order 1..m, hydration over, Morgan
\* enabled; the voice platform has a call id for every slot.
InitOneTick ==
  /\ \E m \in 0..TickLeads :
       /\ morganQueue = [i \in 1..m |-> Lead(i, TRUE)]
       /\ morganQueuedIds = 1..m
  /\ \E n \in 0..TickSlots : morganSlots = [s \in 1..n |-> FreeSlot]
  /\ morganCallToSlot = [c \in 1..TickSlots |-> NoSlot]
  /\ convosoRequestQueue = <<>>
  /\ convosoQueueRunning = FALSE
  /\ worker = IdleWorker
  /\ tick = [t \in TickIds |-> IdleTick]
  /\ pull = IdlePull
  /\ hydrate = "done"
  /\ pollCall = NoCall
  /\ morganEnabled = TRUE
  /\ callState = [c \in 1..TickSlots |-> "none"]
  /\ callSlot = [c \in 1..TickSlots |-> NoSlot]
  /\ callLead = [c \in 1..TickSlots |-> 0]
  /\ lastFree = NoFree
  /\ morganQueuedIdsTimestamps = <<>>
  /\ maxQueuedIds = NoCeiling
  /\ lastSweep = NoSweep
  /\ lastReport = NoReport
  /\ tickLog = <<>>
  /\ vapiPhoneNumberIds = <<>>
  /\ GatewayAtLoad

\* One execution of processMorganQueueTick at a time, every launch answered
\* with a call id, and the status worker; nothing else runs.
NextOneTick ==
  \/ \E t \in {1} : TickStart(t)
  \/ \E t \in TickIds : TickLoop(t)
  \/ \E t \in TickIds : TickDequeued(t)
  \/ \E t \in TickIds : LaunchCallId(t)
  \/ \E ok \in BOOLEAN : WorkerResponse(ok)
  \/ WorkerWake

SpecOneTick == InitOneTick /\ [][NextOneTick]_vars

IssuedCalls == {c \in DOMAIN callState : callState[c] # "none"}
BusyOfTable == {s \in DOMAIN morganSlots : morganSlots[s].busy}

\* The tick is over: it is idle and it did something or had nothing to do.
TickEnded ==
  /\ tick[1].pc = "idle"
  /\ \/ IssuedCalls # {}
     \/ morganQueue = <<>>
     \/ BusyOfTable = DOMAIN morganSlots

\* C11: with N free slots and M queued leads 1..M and every launch answered
\* with a distinct call id, a tick on its own ends with min(N, M) slots busy,
\* each with its own call, the leads after the first min(N, M) still queued in
\* their order, every other slot free, and every dequeued lead launched once:
\* the queue only ever loses its head, to the tick, and a launch takes the
\* lead the tick holds.
C11_OneTickFillsSlots ==
  /\ [](TickEnded =>
          LET B == Cardinality(BusyOfTable)
              Q == Len(morganQueue)
          IN /\ (Q = 0 \/ B = Cardinality(DOMAIN morganSlots))
             /\ morganQueue = [i \in 1..Q |-> Lead(B + i, TRUE)]
             /\ Cardinality(IssuedCalls) = B
             /\ \A s \in BusyOfTable :
                  /\ morganSlots[s].callId \in IssuedCalls
                  /\ morganCallToSlot[morganSlots[s].callId] = s
             /\ \A s, r \in BusyOfTable :
                  morganSlots[s].callId = morganSlots[r].callId => s = r
             /\ \A s \in DOMAIN morganSlots \ BusyOfTable : morganSlots[s] = FreeSlot
             /\ \A t \in TickIds : tick[t].lead = NoLead)
  /\ [][/\ morganQueue' # morganQueue
            => /\ morganQueue # <<>>
               /\ morganQueue' = Tail(morganQueue)
               /\ tick'[1].lead = Head(morganQueue)
        /\ IssuedCalls' # IssuedCalls
            => /\ tick[1].lead # NoLead
               /\ tick'[1].lead = NoLead
               /\ Cardinality(IssuedCalls') = Cardinality(IssuedCalls) + 1]_vars

\* 3 slots and 5 leads: the tick has ended with 3 slots busy and leads 4 and 5
\* queued.
C11_Witness ==
  /\ TickEnded
  /\ Cardinality(BusyOfTable) = 3
  /\ morganQueue = <<Lead(4, TRUE), Lead(5, TRUE)>>

\* ----- successive slot claims -----

\* What k successive calls of getFreeMorganSlotId return on one table: the call
\* reads the table and marks nothing.
RECURSIVE SuccessiveClaims(_, _)
SuccessiveClaims(slots, k) ==
  IF k = 0 THEN <<>>
  ELSE <<getFreeMorganSlotId(slots)>> \o SuccessiveClaims(slots, k - 1)

\* C12: with the N slots all free, N+1 successive claims with no free in
\* between return N distinct slots and then nothing.
C12_ClaimsExhaustPool ==
  (\A s \in DOMAIN morganSlots : ~morganSlots[s].busy)
    => LET N == Cardinality(DOMAIN morganSlots)
           r == SuccessiveClaims(morganSlots, N + 1)
       IN /\ \A i \in 1..N : r[i] # NoSlot
          /\ \A i, j \in 1..N : i # j => r[i] # r[j]
          /\ r[N + 1] = NoSlot

\* ----- the status worker and the scheduler -----

\* The tick has a slot and a dequeued lead and is suspended on the promise of
\* its MC status update, before its launch call.
WaitsForWorker(t) ==
  /\ tick[t].pc = "awaitMC"
  /\ tick[t].slot # NoSlot
  /\ tick[t].lead # NoLead

\* C13: submitting a status transition never blocks the scheduler: a tick
\* with a free slot and a dequeued lead is never waiting for the status
\* worker before its launch call.
C13_DispatchNeverWaits == \A t \in TickIds : ~WaitsForWorker(t)

\* The status worker with its 429 retries step by step, fed by the pull
\* handler and by the ticks with all their launch outcomes.
NextWorker ==
  \/ \E open \in BOOLEAN : HydrateStart(open)
  \/ \E rows \in RawRowSeqs : PullFetched(rows)
  \/ PullNext
  \/ \E ok \in BOOLEAN : WorkerResponse(ok)
  \/ Worker429
  \/ WorkerBackoffOver
  \/ WorkerWake
  \/ \E t \in TickIds : TickStart(t)
  \/ \E t \in TickIds : TickLoop(t)
  \/ \E t \in TickIds : TickDequeued(t)
  \/ \E t \in TickIds : LaunchCallId(t)
  \/ \E t \in TickIds : LaunchNoCallId(t)
  \/ \E t \in TickIds : LaunchError(t)
  \/ \E t \in TickIds : TickReenqueue(t)
  \/ \E t \in TickIds : TickFreeSlot(t)

SpecWorker == Init /\ [][NextWorker]_vars

\* The transitions submitted and not yet settled, oldest first: the one the
\* worker is sending or retrying, then the waiting ones.
Pending ==
  IF worker.pc \in {"request", "backoff"}
  THEN <<worker.cur>> \o convosoRequestQueue
  ELSE convosoRequestQueue

\* C14: transitions are delivered in the order they were submitted, also
\* across 429 retries: a step leaves the pending transitions as they are (a
\* retry included), appends a submission at their end, or settles the oldest
\* one, which is the one the worker was sending.
C14_DeliveredInSubmissionOrder ==
  [][\/ Pending' = Pending
     \/ \E item \in Range(Pending') : Pending' = Append(Pending, item)
     \/ /\ Pending # <<>>
        /\ Pending' = Tail(Pending)
        /\ worker.pc = "request"
        /\ worker.cur = Head(Pending)]_vars

\* A transition is being retried after a 429 while a later transition for the
\* same lead waits behind it.
C14_Witness ==
  /\ worker.pc = "backoff"
  /\ \E i \in DOMAIN convosoRequestQueue :
       /\ convosoRequestQueue[i].leadId = worker.cur.leadId
       /\ convosoRequestQueue[i].status # worker.cur.status

\* C15: on 429 the worker retries the same transition before any later one,
\* for at most MAX_RETRIES_429 attempts in all; a 429 on the last attempt
\* drops the transition, its promise is rejected (the waiter resumes), and
\* the worker goes on with the next queued transition.
C15_BoundedRetries ==
  /\ [](worker.attempt \in 1..MAX_RETRIES_429)
  /\ [][/\ (worker.pc = "request" /\ worker' # worker)
            => \/ /\ worker'.pc = "backoff"
                  /\ worker'.cur = worker.cur
                  /\ worker'.attempt = worker.attempt
                  /\ worker.attempt < MAX_RETRIES_429
                  /\ UNCHANGED <<tick, pull, convosoRequestQueue>>
               \/ /\ worker'.pc = "sleep"
                  /\ UNCHANGED convosoRequestQueue
                  /\ IF worker.cur.waiter = PullWaiter
                     THEN pull.pc = "awaitMQ" /\ pull'.pc = "next"
                     ELSE tick'[worker.cur.waiter].pc = ResumePc(tick[worker.cur.waiter].pc)
        /\ (worker.pc = "backoff" /\ worker' # worker)
            => /\ worker'.pc = "request"
               /\ worker'.cur = worker.cur
               /\ worker'.attempt = worker.attempt + 1
               /\ UNCHANGED convosoRequestQueue
        /\ (worker.pc = "sleep" /\ worker' # worker /\ convosoRequestQueue # <<>>)
            => /\ worker'.pc = "request"
               /\ worker'.cur = Head(convosoRequestQueue)
               /\ worker'.attempt = 1
               /\ convosoRequestQueue' = Tail(convosoRequestQueue)]_vars

\* The last attempt of a transition is in flight after four 429 answers,
\* with a later transition waiting.
C15_Witness ==
  /\ worker.pc = "request"
  /\ worker.attempt = MAX_RETRIES_429
  /\ convosoRequestQueue # <<>>

\* C16: dispatch does not depend on a status write succeeding.  Whether the
\* write is resolved or rejected, the step that settles it changes neither
\* queue, ledger, slot table nor index, and the caller that awaited it goes on
\* at the statement after the await with its slot and lead: no tick is
\* aborted, no lead dropped, and the slot is freed or bound as after a
\* successful write.
C16_WriteOutcomeIrrelevant ==
  [][(worker.pc = "request" /\ worker'.pc = "sleep")
       => /\ UNCHANGED <<morganQueue, morganQueuedIds, morganSlots, morganCallToSlot>>
          /\ IF worker.cur.waiter = PullWaiter
             THEN /\ pull' = [pull EXCEPT !.pc = "next"]
                  /\ tick' = tick
             ELSE /\ tick' = [tick EXCEPT ![worker.cur.waiter].pc = ResumePc(@)]
                  /\ tick[worker.cur.waiter].pc # ResumePc(tick[worker.cur.waiter].pc)
                  /\ pull' = pull]_vars

\* The MC write of a dequeued lead was rejected and the tick goes on to
\* launch the lead on its slot.
C16_Witness ==
  /\ worker.pc = "sleep"
  /\ worker.failed
  /\ \E t \in TickIds :
       /\ tick[t].pc = "dequeued"
       /\ tick[t].lead # NoLead
       /\ tick[t].slot # NoSlot

\* ----- ledger eviction sweep (FIXES.md, Fix #2) -----

\* Variant that orders the entries newest first.
CompareAt_Descending(a, b) == b.at - a.at

\* (a, b) => a[1] - b[1]
CompareAt(a, b) == a.at - b.at

\* Array.prototype.sort is stable: an entry comes after the entries that
\* compare less and after the earlier entries that compare equal.
SortByTimestamp(entries) ==
  LET n == Len(entries)
      Precedes(j, k) ==
        \/ CompareAt(entries[j], entries[k]) < 0
        \/ CompareAt(entries[j], entries[k]) = 0 /\ j < k
      ranked == {<<1 + Cardinality({j \in 1..n : Precedes(j, k)}), entries[k]>> :
                   k \in 1..n}
  IN [r \in 1..n |-> (CHOOSE p \in ranked : p[1] = r)[2]]

\* Variant that takes 1% of the ceiling.
EntriesToRemove_Percent(max) == max \div 100

\* Math.floor(MAX_QUEUED_IDS * 0.1)
EntriesToRemove(max) == max \div 10

\* Variant that treats no id as queued.
inQueue_Never(st, leadId) == FALSE

\* morganQueue.some(lead => lead.id === leadId)
inQueue(st, leadId) == \E i \in DOMAIN st.q : st.q[i].id = leadId

\* The for loop of cleanupOldQueuedIds over the sorted entries.
RECURSIVE SweepLoop(_, _, _, _)
SweepLoop(st, sorted, removed, entriesToRemove) ==
  IF sorted = <<>> \/ removed >= entriesToRemove THEN st
  ELSE LET leadId == Head(sorted).id IN
       IF inQueue(st, leadId)
       THEN SweepLoop(st, Tail(sorted), removed, entriesToRemove)
       ELSE SweepLoop([st EXCEPT !.ids = @ \ {leadId},
                                 !.ts = SelectSeq(@, LAMBDA e : e.id # leadId)],
                      Tail(sorted), removed + 1, entriesToRemove)

cleanupOldQueuedIds(st) ==
  LET after == SweepLoop(st, SortByTimestamp(st.ts), 0, EntriesToRemove(maxQueuedIds))
  IN [after EXCEPT !.lastSweep = [ran |-> TRUE, byAdmit |-> FALSE,
                                  tracked |-> st.ids, entries |-> st.ts,
                                  removed |-> st.ids \ after.ids]]

\* cleanupOldQueuedIds() called on a ledger that is over the ceiling.
Sweep ==
  /\ maxQueuedIds # NoCeiling
  /\ Cardinality(morganQueuedIds) > maxQueuedIds
  /\ Commit(cleanupOldQueuedIds(St))
  /\ Frame

\* Time of the newest entry.
LastAt ==
  IF morganQueuedIdsTimestamps = <<>> THEN 0
  ELSE morganQueuedIdsTimestamps[Len(morganQueuedIdsTimestamps)].at

\* Largest lead id the model admits under the ceiling in force.
AdmitLimit == IF maxQueuedIds = ScenarioCeiling THEN ScenarioAdmitted ELSE SweepIds

\* enqueueMorganLead with the ledger ceiling: a lead with a new id is admitted
\* d milliseconds after the previous one, its time is recorded, and the sweep
\* runs if the ledger is then over the ceiling.
AdmitSweep(i, d) ==
  /\ maxQueuedIds # NoCeiling
  /\ i <= AdmitLimit
  /\ \A j \in morganQueuedIds \cup {morganQueue[k].id : k \in DOMAIN morganQueue} : j < i
  /\ LET r == enqueueMorganLead(St, Lead(i, TRUE), PullWaiter)
         timed == [r.st EXCEPT !.ts = Append(@, [id |-> i, at |-> LastAt + d])]
         swept == cleanupOldQueuedIds(timed)
     IN IF Cardinality(timed.ids) > maxQueuedIds
        THEN Commit([swept EXCEPT !.lastSweep.byAdmit = TRUE])
        ELSE Commit(timed)
  /\ Frame

\* The entries of ids 1..n in insertion order, one millisecond apart
\* (spread) or all in the same millisecond.
Entries(n, spread) == [i \in 1..n |-> [id |-> i, at |-> IF spread THEN i ELSE 1]]

\* The leads of a set of ids, lowest id at the head.
RECURSIVE QueueOf(_)
QueueOf(S) ==
  IF S = {} THEN <<>>
  ELSE LET m == CHOOSE x \in S : \A y \in S : y <= x
       IN Append(QueueOf(S \ {m}), Lead(m, TRUE))

\* The ledger as the test fills it: ids 1..n tracked, some of them queued.
\* Either a small ledger around the ceiling SweepCeiling with any subset
\* queued, or the ledger of the scenario with a block of consecutive ids
\* queued.
InitSweep ==
  /\ \/ /\ maxQueuedIds = SweepCeiling
        /\ \E n \in (SweepCeiling - 2)..SweepIds, spread \in BOOLEAN :
             /\ morganQueuedIds = 1..n
             /\ morganQueuedIdsTimestamps = Entries(n, spread)
             /\ \E S \in SUBSET (1..n) : morganQueue = QueueOf(S)
     \/ /\ maxQueuedIds = ScenarioCeiling
        /\ \E n \in {ScenarioAdmitted - 1, ScenarioAdmitted},
              len \in {ScenarioQueued - 1, ScenarioQueued} :
             /\ morganQueuedIds = 1..n
             /\ morganQueuedIdsTimestamps = Entries(n, TRUE)
             /\ \E first \in 1..(n - len + 1) :
                  morganQueue = QueueOf(first..(first + len - 1))
  /\ morganSlots = [s \in Slots |-> FreeSlot]
  /\ morganCallToSlot = [c \in CallIds |-> NoSlot]
  /\ convosoRequestQueue = <<>>
  /\ convosoQueueRunning = FALSE
  /\ worker = IdleWorker
  /\ tick = [t \in TickIds |-> IdleTick]
  /\ pull = IdlePull
  /\ hydrate = "done"
  /\ pollCall = NoCall
  /\ morganEnabled = FALSE
  /\ callState = [c \in CallIds |-> "none"]
  /\ callSlot = [c \in CallIds |-> NoSlot]
  /\ callLead = [c \in CallIds |-> 0]
  /\ lastFree = NoFree
  /\ lastSweep = NoSweep
  /\ lastReport = NoReport
  /\ tickLog = <<>>
  /\ vapiPhoneNumberIds = <<>>
  /\ GatewayAtLoad

NextSweep ==
  \/ Sweep
  \/ \E i \in 1..ScenarioAdmitted, d \in 0..1 : AdmitSweep(i, d)

SpecSweep == InitSweep /\ [][NextSweep]_vars

Min(a, b) == IF a <= b THEN a ELSE b
\* Position of an id among the entries the sweep started from.
Pos(entries, leadId) == CHOOSE k \in DOMAIN entries : entries[k].id = leadId
\* Tracked ids that were not in the queue when the sweep ran.
SweepCandidates == lastSweep.tracked \ QueueIds

C18_SweepKeepsQueuedIds ==
  lastSweep.ran =>
    /\ lastSweep.removed \cap QueueIds = {}
    /\ (lastSweep.tracked \cap QueueIds) \subseteq morganQueuedIds
    /\ morganQueuedIds = lastSweep.tracked \ lastSweep.removed

\* The sweep passed over a queued id that was older than an id it removed.
C18_Witness ==
  /\ lastSweep.ran
  /\ \E r \in lastSweep.removed, k \in lastSweep.tracked \cap QueueIds :
       Pos(lastSweep.entries, k) < Pos(lastSweep.entries, r)

\* The scenario: ceiling 100, 110 ids tracked when the sweep ran, 20 of them
\* in the queue.
ScenarioSwept ==
  /\ lastSweep.ran
  /\ maxQueuedIds = ScenarioCeiling
  /\ Cardinality(lastSweep.tracked) = ScenarioAdmitted
  /\ Cardinality(lastSweep.tracked \cap QueueIds) = ScenarioQueued

\* The removed ids are the oldest tracked ids that were not queued.
RemovedAreOldest ==
  \A r \in lastSweep.removed, k \in SweepCandidates \ lastSweep.removed :
    Pos(lastSweep.entries, r) < Pos(lastSweep.entries, k)

\* C19 (as stated): with ceiling 100, 110 admitted ids and 20 of them in the
\* queue, one sweep removes exactly 9 ids, the oldest non-queued ones, and the
\* 20 queued ids remain tracked.
C19_ScenarioRemovesNine ==
  ScenarioSwept =>
    /\ Cardinality(lastSweep.removed) = 9
    /\ RemovedAreOldest
    /\ (lastSweep.tracked \cap QueueIds) \subseteq morganQueuedIds

\* C19 (amended): with ceiling 100, 110 admitted ids and 20 of them in the
\* queue, one sweep removes exactly 10 ids (floor(100 * 0.1)), the oldest
\* non-queued ones by insertion time, and the 20 queued ids remain tracked.
C19_ScenarioRemovesTen ==
  ScenarioSwept =>
    /\ Cardinality(lastSweep.removed) = 10
    /\ Cardinality(morganQueuedIds) = ScenarioAdmitted - 10
    /\ RemovedAreOldest
    /\ (lastSweep.tracked \cap QueueIds) \subseteq morganQueuedIds

\* The scenario's sweep ran with the oldest ids in the queue, so that it had
\* to pass over them.
C19_Witness ==
  /\ ScenarioSwept
  /\ 1 \in QueueIds
  /\ lastSweep.removed # {}

\* ----- leads without a phone number -----

\* C20: no lead without a phone number is ever present in the queue, whichever
\* path admitted it (enqueueMorganLead, hydration, periodic merge, requeue).
C20_NoPhonelessLeadQueued ==
  \A i \in DOMAIN morganQueue : morganQueue[i].phone

\* Hydration is over, and a lead has been put back in front of another
\* queued lead after its launch failed.
C20_Witness ==
  /\ hydrate = "done"
  /\ Len(morganQueue) >= 2
  /\ \E t \in TickIds : tick[t].pc \in {"awaitRequeueMQ", "awaitEnqueueMQ"}

\* ----- queue order -----

IsPrefix(s, t) == Len(s) <= Len(t) /\ SubSeq(t, 1, Len(s)) = s
\* The step is the dequeue of tick t: getNextMorganLead at the top of the loop.
DequeueStep(t) == tick[t].pc = "loop" /\ tick'[t].pc \in {"awaitMC", "dequeued"}
\* The step is the no-call-id branch of tick t putting its lead back.
RequeueFrontStep(t) ==
  tick[t].pc = "awaitLaunch" /\ tick'[t].pc \in {"awaitRequeueMQ", "freeNoCallId"}

\* C21: leads are dequeued in the order they were admitted, except that a lead
\* put back by the requeue-to-front path is dequeued before every lead that is
\* in the queue at that moment: a dequeue takes the head, the requeue-to-front
\* path puts its lead at the head, every other admission goes behind all the
\* queued leads, and nothing else reorders the queue (the hydration reset
\* empties it).
C21_FifoExceptRequeueFront ==
  [][ /\ \A t \in TickIds :
           DequeueStep(t) =>
             IF morganQueue = <<>>
             THEN morganQueue' = <<>> /\ tick'[t].lead = NoLead
             ELSE morganQueue' = Tail(morganQueue) /\ tick'[t].lead = Head(morganQueue)
      /\ \A t \in TickIds :
           RequeueFrontStep(t) => morganQueue' = <<tick[t].lead>> \o morganQueue
      /\ (\A t \in TickIds : ~DequeueStep(t) /\ ~RequeueFrontStep(t)) =>
           \/ IsPrefix(morganQueue, morganQueue')
           \/ hydrate = "init" /\ morganQueue' = <<>>
    ]_vars

\* A lead was put back in front of a lead that had been admitted while the
\* first one was being launched.
C21_Witness ==
  /\ \E t \in TickIds : tick[t].pc \in {"awaitRequeueMQ", "freeNoCallId"}
  /\ Len(morganQueue) >= 2
  /\ convosoRequestQueue # <<>> \/ worker.pc # "idle" \/ ~morganEnabled

\* ----- voiceGateway.js: startOutboundCall -----

\* Variant that does not advance the rotation counter.
getNextVapiPhoneNumberId_NoAdvance(ids, index) ==
  [id |-> ids[(index % Len(ids)) + 1], index |-> index]

\* getNextVapiPhoneNumberId on a configuration that is not empty: the id it
\* returns and the counter it leaves.
getNextVapiPhoneNumberId(ids, index) ==
  [id |-> ids[(index % Len(ids)) + 1], index |-> index + 1]

\* What fetch and the reading of the response can come to: a 2xx response
\* with or without data.id, a response that is not ok, or a rejection of
\* fetch or response.json() whose message may hold the text 429.
NoResponse == [kind |-> "none", status |-> 0, callId |-> FALSE, text429 |-> FALSE]
Responses ==
  {[NoResponse EXCEPT !.kind = "ok", !.callId = b] : b \in BOOLEAN}
  \cup {[NoResponse EXCEPT !.kind = "http", !.status = c] :
          c \in {TooManyRequests, ServerError}}
  \cup {[NoResponse EXCEPT !.kind = "rejected", !.text429 = b] : b \in BOOLEAN}

\* The error the catch block receives: new Error("Vapi create call failed")
\* with statusCode = response.status, or the rejection of fetch / json().
ErrorOf(response) ==
  IF response.kind = "http"
  THEN [statusCode |-> response.status, text429 |-> FALSE]
  ELSE [statusCode |-> 0, text429 |-> response.text429]

\* Variant that looks at the message only.
Is429_MessageOnly(err) == err.text429

\* err.statusCode === 429 || String(err.message || "").includes("429")
Is429(err) == err.statusCode = TooManyRequests \/ err.text429

\* rateLimitState: the value getLastVapi429At() returns after setLastVapi429At(t).
setLastVapi429At(t) == t

\* One invocation as the history keeps it: its phoneNumberId argument, the id
\* put in the payload (NoPhoneId: it ended before line 108), how it ended,
\* and the last-429 time before and after its catch block ran.
Launch(phoneNumberId, used, state) ==
  [phoneNumberId |-> phoneNumberId, used |-> used, state |-> state,
   response |-> NoResponse, before |-> 0, after |-> 0, at |-> 0]

\* startOutboundCall up to await fetch(...).  valid: the API key, toNumber
\* and the assistant id are all there.
StartOutboundCall(agentType, valid, phoneNumberId) ==
  /\ Len(launches) < MaxLaunches
  /\ IF agentType = "morgan" /\ ~morganEnabled
     THEN /\ launches' = Append(launches, Launch(phoneNumberId, NoPhoneId, "returned"))
          /\ UNCHANGED vapiPhoneNumberIndex
     ELSE IF ~valid
     THEN /\ launches' = Append(launches, Launch(phoneNumberId, NoPhoneId, "threw"))
          /\ UNCHANGED vapiPhoneNumberIndex
     ELSE IF phoneNumberId # NoPhoneId
     THEN /\ launches' = Append(launches, Launch(phoneNumberId, phoneNumberId, "pending"))
          /\ UNCHANGED vapiPhoneNumberIndex
     ELSE IF vapiPhoneNumberIds = <<>>
     THEN /\ launches' = Append(launches, Launch(phoneNumberId, NoPhoneId, "threw"))
          /\ UNCHANGED vapiPhoneNumberIndex
     ELSE LET next == getNextVapiPhoneNumberId(vapiPhoneNumberIds, vapiPhoneNumberIndex)
          IN /\ launches' = Append(launches, Launch(phoneNumberId, next.id, "pending"))
             /\ vapiPhoneNumberIndex' = next.index
  /\ UNCHANGED <<vapiPhoneNumberIds, lastVapi429At, now>>
  /\ UNCHANGED indexVars

\* The try block of invocation j from the answer of fetch on, and the catch
\* block: a 429 is recorded, every error is thrown again.
GatewayResponse(j, response) ==
  /\ launches[j].state = "pending"
  /\ now' = now + 1
  /\ LET err == ErrorOf(response)
         after == IF response.kind # "ok" /\ Is429(err)
                  THEN setLastVapi429At(now')
                  ELSE lastVapi429At
     IN /\ lastVapi429At' = after
        /\ launches' = [launches EXCEPT ![j] =
                          [@ EXCEPT !.state = IF response.kind = "ok" THEN "returned"
                                              ELSE "threw",
                                    !.response = response,
                                    !.before = lastVapi429At,
                                    !.after = after,
                                    !.at = now']]
  /\ UNCHANGED <<vapiPhoneNumberIds, vapiPhoneNumberIndex>>
  /\ UNCHANGED indexVars

\* The module loaded with zero to MaxPhoneIds origination ids configured.
InitGateway ==
  /\ \E n \in 0..MaxPhoneIds : vapiPhoneNumberIds = [i \in 1..n |-> i]
  /\ GatewayAtLoad
  /\ morganQueue = <<>>
  /\ morganQueuedIds = {}
  /\ morganSlots = [s \in Slots |-> FreeSlot]
  /\ morganCallToSlot = [c \in CallIds |-> NoSlot]
  /\ convosoRequestQueue = <<>>
  /\ convosoQueueRunning = FALSE
  /\ worker = IdleWorker
  /\ tick = [t \in TickIds |-> IdleTick]
  /\ pull = IdlePull
  /\ hydrate = "done"
  /\ pollCall = NoCall
  /\ morganEnabled \in BOOLEAN
  /\ callState = [c \in CallIds |-> "none"]
  /\ callSlot = [c \in CallIds |-> NoSlot]
  /\ callLead = [c \in CallIds |-> 0]
  /\ lastFree = NoFree
  /\ morganQueuedIdsTimestamps = <<>>
  /\ maxQueuedIds = NoCeiling
  /\ lastSweep = NoSweep
  /\ lastReport = NoReport
  /\ tickLog = <<>>

NextGateway ==
  \/ \E agentType \in {"morgan", "riley"}, valid \in BOOLEAN,
        phoneNumberId \in {NoPhoneId, ExplicitPhoneId} :
       StartOutboundCall(agentType, valid, phoneNumberId)
  \/ \E j \in 1..MaxLaunches, response \in Responses :
       j <= Len(launches) /\ GatewayResponse(j, response)

SpecGateway == InitGateway /\ [][NextGateway]_vars

\* C22: a launch rejected with HTTP 429 records the last-429 timestamp and
\* still propagates the error to the caller; a launch rejected with any other
\* status propagates the error and leaves the last-429 timestamp unchanged.
C22_Only429Recorded ==
  \A j \in DOMAIN launches :
    launches[j].response.kind = "http" =>
      /\ launches[j].state = "threw"
      /\ IF launches[j].response.status = TooManyRequests
         THEN launches[j].after = launches[j].at /\ launches[j].after # launches[j].before
         ELSE launches[j].after = launches[j].before

\* A 429 was recorded, and a later launch rejected with another status left
\* that time in place.
C22_Witness ==
  \E j, k \in DOMAIN launches :
    /\ launches[j].response.kind = "http"
    /\ launches[j].response.status = TooManyRequests
    /\ launches[k].response.kind = "http"
    /\ launches[k].response.status = ServerError
    /\ launches[k].before = launches[j].at
    /\ lastVapi429At = launches[j].at

\* Invocation j passed no phoneNumberId and took an id from the rotation.
Rotated(j) == launches[j].phoneNumberId = NoPhoneId /\ launches[j].used # NoPhoneId
\* Number of such invocations before invocation j.
RotatedBefore(j) == Cardinality({i \in 1..(j - 1) : Rotated(i)})

\* C23: the k-th launch that passes no explicit phoneNumberId uses
\* ids[k mod n] of the configured ids; a launch with an explicit phoneNumberId
\* uses exactly that id and does not advance the cycle.
C23_RoundRobin ==
  /\ \A j \in DOMAIN launches :
       /\ Rotated(j) =>
            launches[j].used =
              vapiPhoneNumberIds[(RotatedBefore(j) % Len(vapiPhoneNumberIds)) + 1]
       /\ (launches[j].phoneNumberId # NoPhoneId /\ launches[j].used # NoPhoneId) =>
            launches[j].used = launches[j].phoneNumberId
  /\ vapiPhoneNumberIndex = RotatedBefore(Len(launches) + 1)

\* With two ids configured, a launch with an explicit id came between two
\* launches that took the first and the second id of the rotation.
C23_Witness ==
  /\ Len(vapiPhoneNumberIds) = 2
  /\ Len(launches) = 3
  /\ Rotated(1) /\ Rotated(3)
  /\ launches[2].used = ExplicitPhoneId
  /\ launches[1].used = vapiPhoneNumberIds[1]
  /\ launches[3].used = vapiPhoneNumberIds[2]

\* ----- who frees a slot -----

\* C24: a busy slot is freed only by a completion push or a poll result for
\* the call id it is bound to, never by a signal for another call id nor by
\* the no-call-id or error handling of another launch.
C24_FreedOnlyByOwnSignal ==
  [][ \A s \in Slots :
        (morganSlots[s].busy /\ ~morganSlots'[s].busy) =>
          /\ lastFree'.called
          /\ lastFree'.callId = morganSlots[s].callId
    ]_vars

\* ----- one call per lead -----

\* The calls in progress and the leads they were launched for.
InFlight == {c \in DOMAIN callState : callState[c] = "live"}
InFlightLeads == {callLead[c] : c \in InFlight}

\* C25: a lead is never dispatched again while a call for it is in flight: no
\* lead id is bound to two in-flight calls at once and no lead id is both in
\* flight and in the queue.
C25_NoRedispatchInFlight ==
  /\ \A c, d \in InFlight : callLead[c] = callLead[d] => c = d
  /\ InFlightLeads \cap QueueIds = {}

\* ----- one scheduler tick with every outcome of a launch -----

FaultLeads == 3

\* As InitOneTick with at most FaultLeads leads queued, and the tick's doings
\* kept for the tick that runs.
InitTick ==
  /\ \E m \in 0..FaultLeads :
       /\ morganQueue = [i \in 1..m |-> Lead(i, TRUE)]
       /\ morganQueuedIds = 1..m
  /\ \E n \in 0..TickSlots : morganSlots = [s \in 1..n |-> FreeSlot]
  /\ morganCallToSlot = [c \in 1..TickSlots |-> NoSlot]
  /\ convosoRequestQueue = <<>>
  /\ convosoQueueRunning = FALSE
  /\ worker = IdleWorker
  /\ tick = [t \in TickIds |-> IdleTick]
  /\ pull = IdlePull
  /\ hydrate = "done"
  /\ pollCall = NoCall
  /\ morganEnabled = TRUE
  /\ callState = [c \in 1..TickSlots |-> "none"]
  /\ callSlot = [c \in 1..TickSlots |-> NoSlot]
  /\ callLead = [c \in 1..TickSlots |-> 0]
  /\ lastFree = NoFree
  /\ morganQueuedIdsTimestamps = <<>>
  /\ maxQueuedIds = NoCeiling
  /\ lastSweep = NoSweep
  /\ lastReport = NoReport
  /\ tickLog = [t \in {1} |-> NewTickLog(morganSlots)]
  /\ vapiPhoneNumberIds = <<>>
  /\ GatewayAtLoad

\* What the process does once a tick has begun: the steps of the tick, the
\* answer of startOutboundCall, and the status worker.
TickProgress ==
  \/ \E t \in TickIds : TickLoop(t)
  \/ \E t \in TickIds : TickDequeued(t)
  \/ \E t \in TickIds : LaunchCallId(t)
  \/ \E t \in TickIds : LaunchNoCallId(t)
  \/ \E t \in TickIds : LaunchError(t)
  \/ \E t \in TickIds : TickReenqueue(t)
  \/ \E t \in TickIds : TickFreeSlot(t)
  \/ \E ok \in BOOLEAN : WorkerResponse(ok)
  \/ WorkerWake

\* One execution of processMorganQueueTick at a time; startOutboundCall may
\* answer with a call id, without one, or throw.
NextTick ==
  \/ \E t \in {1} : TickStart(t)
  \/ TickProgress

\* The event loop runs what is runnable, every launch is answered and every
\* timer fires.
SpecTick == InitTick /\ [][NextTick]_vars /\ WF_vars(TickProgress)

\* C26: every tick eventually ends, whatever startOutboundCall answers (a
\* call id, no call id, or an error, each launch being answered), and when a
\* tick ends no slot is free or the queue is empty.
C26_EveryTickEnds ==
  /\ \A t \in TickIds : (tick[t].pc # "idle") ~> (tick[t].pc = "idle")
  /\ [][ \A t \in TickIds :
           (tick[t].pc # "idle" /\ tick'[t].pc = "idle") =>
             \/ getFreeMorganSlotId(morganSlots') = NoSlot
             \/ morganQueue' = <<>> ]_vars

\* ----- the slot table, the call-id index and the poll sweep -----

\* Hydration is over and the queue holds up to MaxLeads leads; nothing has
\* been dialled yet.
InitReconcile ==
  /\ \E m \in 0..MaxLeads :
       /\ morganQueue = [i \in 1..m |-> Lead(i, TRUE)]
       /\ morganQueuedIds = 1..m
  /\ morganSlots = [s \in Slots |-> FreeSlot]
  /\ morganCallToSlot = [c \in CallIds |-> NoSlot]
  /\ convosoRequestQueue = <<>>
  /\ convosoQueueRunning = FALSE
  /\ worker = IdleWorker
  /\ tick = [t \in TickIds |-> IdleTick]
  /\ pull = IdlePull
  /\ hydrate = "done"
  /\ pollCall = NoCall
  /\ morganEnabled = TRUE
  /\ callState = [c \in CallIds |-> "none"]
  /\ callSlot = [c \in CallIds |-> NoSlot]
  /\ callLead = [c \in CallIds |-> 0]
  /\ lastFree = NoFree
  /\ morganQueuedIdsTimestamps = <<>>
  /\ maxQueuedIds = NoCeiling
  /\ lastSweep = NoSweep
  /\ lastReport = NoReport
  /\ tickLog = <<>>
  /\ vapiPhoneNumberIds = <<>>
  /\ GatewayAtLoad

\* What the process itself runs: the scheduler's timer and ticks, the status
\* worker, and the 30-second poll sweep.
Scheduled ==
  \/ \E t \in TickIds : TickStart(t)
  \/ \E t \in TickIds : TickLoop(t)
  \/ \E t \in TickIds : TickDequeued(t)
  \/ \E t \in TickIds : LaunchCallId(t)
  \/ \E ok \in BOOLEAN : WorkerResponse(ok)
  \/ WorkerWake
  \/ \E c \in CallIds : PollQuery(c)
  \/ \E ok \in BOOLEAN : PollAnswer(ok)

\* Ticks (overlapping ones included), calls that end, end-of-call webhooks
\* and the poll sweep.
NextReconcile ==
  \/ Scheduled
  \/ \E c \in CallIds : CallEnds(c)
  \/ \E c \in CallIds \cup {UnknownCallId} : VapiWebhook(c)

\* Timers fire and runnable code runs, every call ends, and getVapiCall does
\* not fail for ever.  The arrival of a webhook is not the process's to
\* schedule.
SpecReconcile ==
  /\ InitReconcile
  /\ [][NextReconcile]_vars
  /\ WF_vars(Scheduled)
  /\ WF_vars(\E c \in CallIds : PollQuery(c))
  /\ SF_vars(PollAnswer(TRUE))
  /\ \A c \in CallIds : WF_vars(CallEnds(c))

\* C27: a diverged slot/call-id index (a call id mapped to a slot that is not
\* busy with it, or a busy slot whose call id is not mapped) does not
\* persist: the reconciler restores a consistent index.
C27_DivergenceHealed == (~C3_IndexIsInverse) ~> C3_IndexIsInverse

\* The tick is handling a launch that failed.
HandlingFailure(t) ==
  tick[t].pc \in {"awaitRequeueMQ", "awaitRevertMQ", "reenqueue", "awaitEnqueueMQ",
                  "freeNoCallId", "freeCatch"}

\* C28: a launch failure does not abort the tick or cancel other launches.
\* While a tick handles a failed launch it does not end and it leaves every
\* slot but its own as it is; and a tick in which a launch failed ends only
\* when no slot is free or the queue is empty, so the other queued leads are
\* still dispatched to the remaining free slots.
C28_FailureDoesNotAbortTick ==
  [][ \A t \in DOMAIN tickLog :
        /\ HandlingFailure(t) =>
             /\ tick'[t].pc # "idle"
             /\ \A s \in DOMAIN morganSlots :
                  s # tick[t].slot => morganSlots'[s] = morganSlots[s]
        /\ (tickLog[t].failed # {} /\ tick[t].pc # "idle" /\ tick'[t].pc = "idle") =>
             \/ getFreeMorganSlotId(morganSlots') = NoSlot
             \/ morganQueue' = <<>> ]_vars

\* The launch of lead 1 failed, and the same tick went on to fill both slots,
\* one of them with lead 2.
C28_Witness ==
  /\ tick[1].pc = "idle"
  /\ 1 \in tickLog[1].failed
  /\ Cardinality(DOMAIN morganSlots) >= 2
  /\ getFreeMorganSlotId(morganSlots) = NoSlot
  /\ \E c \in DOMAIN callState : callState[c] = "live" /\ callLead[c] = 2

\* A slot other than the one tick t has selected is free.
AnotherSlotFree(t) ==
  \E s \in DOMAIN morganSlots : s # tick[t].slot /\ ~morganSlots[s].busy

\* C29: within one tick the loop does not wait for a launch to settle before
\* it claims the next slot and dequeues the next lead: the tick is never
\* suspended on one launch while another slot is free and a lead is queued,
\* so with two free slots and two leads both launches are outstanding together.
C29_LoopDoesNotWaitForLaunch ==
  \A t \in TickIds :
    LaunchOutstanding(t) => ~(AnotherSlotFree(t) /\ morganQueue # <<>>)

\* C30: within a single tick the number of launch attempts is at most the
\* number of slots that were free when the tick started, and no lead is
\* launched more than once in the same tick.
C30_AttemptsBoundedBySlots ==
  \A t \in DOMAIN tickLog :
    /\ tickLog[t].dequeuedThisTick <= tickLog[t].freeAtStart
    /\ ~tickLog[t].again

\* ----- the gates of the tick -----

\* As InitTick, with the enable switch either way.
InitGate ==
  /\ \E m \in 0..FaultLeads :
       /\ morganQueue = [i \in 1..m |-> Lead(i, TRUE)]
       /\ morganQueuedIds = 1..m
  /\ \E n \in 0..TickSlots : morganSlots = [s \in 1..n |-> FreeSlot]
  /\ morganCallToSlot = [c \in 1..TickSlots |-> NoSlot]
  /\ convosoRequestQueue = <<>>
  /\ convosoQueueRunning = FALSE
  /\ worker = IdleWorker
  /\ tick = [t \in TickIds |-> IdleTick]
  /\ pull = IdlePull
  /\ hydrate = "done"
  /\ pollCall = NoCall
  /\ morganEnabled \in BOOLEAN
  /\ callState = [c \in 1..TickSlots |-> "none"]
  /\ callSlot = [c \in 1..TickSlots |-> NoSlot]
  /\ callLead = [c \in 1..TickSlots |-> 0]
  /\ lastFree = NoFree
  /\ morganQueuedIdsTimestamps = <<>>
  /\ maxQueuedIds = NoCeiling
  /\ lastSweep = NoSweep
  /\ lastReport = NoReport
  /\ tickLog = [t \in {1} |-> NewTickLog(morganSlots)]
  /\ vapiPhoneNumberIds = <<>>
  /\ GatewayAtLoad

\* One execution of processMorganQueueTick at a time, invoked inside or
\* outside business hours.
NextGate ==
  \/ \E open \in BOOLEAN : TickInvoked(1, open)
  \/ TickProgress

SpecGate == InitGate /\ [][NextGate]_vars

\* This step is an invocation of tick t.
InvokedNow(t) ==
  /\ tick[t].pc = "idle"
  /\ tickLog'[t] # tickLog[t] \/ tick'[t] # tick[t]

\* C31: a tick that starts while the business-hours gate or the enable switch
\* is false is a no-op: it stays idle (so it dequeues nothing and launches
\* nothing), submits no status transition, and leaves queue, ledger, slot pool
\* and call-id index unchanged.
C31_GatedTickIsNoOp ==
  [][ \A t \in DOMAIN tickLog :
        (InvokedNow(t) /\ ~(tickLog'[t].open /\ tickLog'[t].enabled)) =>
          /\ tick'[t] = IdleTick
          /\ UNCHANGED <<morganQueue, morganQueuedIds, morganSlots, morganCallToSlot,
                         convosoRequestQueue, convosoQueueRunning, worker,
                         callState, launches>> ]_vars

\* A tick was invoked outside business hours with Morgan enabled, a lead
\* queued and a slot free, and did nothing.
C31_Witness ==
  /\ tick[1].pc = "idle"
  /\ ~tickLog[1].open
  /\ morganEnabled
  /\ morganQueue # <<>>
  /\ getFreeMorganSlotId(morganSlots) # NoSlot

\* ----- the status worker and the answers of the store -----

\* The status worker fed by the pull handler, the store answering each
\* request with a status code.
NextStore ==
  \/ \E open \in BOOLEAN : HydrateStart(open)
  \/ \E rows \in RawRowSeqs : PullFetched(rows)
  \/ PullNext
  \/ \E statusCode \in StoreStatusCodes : StoreAnswers(statusCode)
  \/ WorkerBackoffOver
  \/ WorkerWake

SpecStore == Init /\ [][NextStore]_vars

\* The store has answered the worker's request in this step.
AnsweredNow == worker.pc = "request" /\ worker'.pc # "request"

\* C32: a status update answered with a non-2xx response that is not a
\* permanent rejection (a 5xx) is retried, and one answered with a 4xx other
\* than 429 is dropped without retry.
C32_RetryableUnlessPermanent ==
  [][ AnsweredNow =>
        /\ (worker'.code >= 500 /\ worker.attempt < MAX_RETRIES_429) =>
             /\ worker'.pc = "backoff"
             /\ worker'.cur = worker.cur
        /\ (worker'.code \in 400..499 /\ worker'.code # TooManyRequests) =>
             /\ worker'.pc = "sleep"
             /\ worker'.failed ]_vars

\* The worker loop has a request at the store (sending it or backing off).
Sending == worker.pc \in {"request", "backoff"}

\* C33: at most one worker loop is active and at most one status transition
\* is being sent at any time, whoever calls enqueueConvosoUpdate: the flag
\* convosoQueueRunning is true exactly while the loop runs, a loop starts
\* only from the idle state, and the request the loop is sending stays the
\* one at the store until it has settled and the loop sleeps.
C33_SingleWorker ==
  /\ [](convosoQueueRunning <=> worker.pc # "idle")
  /\ [][ /\ (worker.pc = "idle" /\ worker'.pc # "idle") => ~convosoQueueRunning
         /\ Sending =>
              \/ worker'.pc = "sleep"
              \/ /\ worker'.pc \in {"request", "backoff"}
                 /\ worker'.cur = worker.cur
                 /\ worker'.attempt >= worker.attempt ]_vars

\* The worker is sending one transition while a tick's MC update and an
\* enqueue's MQ update wait in the queue.
C33_Witness ==
  /\ worker.pc = "request"
  /\ \E i, j \in DOMAIN convosoRequestQueue :
       /\ convosoRequestQueue[i].status = "MC"
       /\ convosoRequestQueue[j].status = "MQ"

\* ----- every submitted transition settles -----

\* The steps of processConvosoQueue and updateConvosoLead.
WorkerSteps ==
  \/ \E statusCode \in StoreStatusCodes : StoreAnswers(statusCode)
  \/ WorkerBackoffOver
  \/ WorkerWake

\* The continuations of the pull handler and of the tick that run without
\* waiting for a timer or a response.
Continuations ==
  \/ PullNext
  \/ \E t \in TickIds : TickLoop(t)
  \/ \E t \in TickIds : TickDequeued(t)

\* The status worker with the store's answers, fed by the pull handler (MQ on
\* enqueue) and by a tick (MC on dequeue).
NextSettle ==
  \/ \E open \in BOOLEAN : HydrateStart(open)
  \/ \E rows \in RawRowSeqs : PullFetched(rows)
  \/ \E t \in {1} : TickStart(t)
  \/ \E t \in TickIds : LaunchCallId(t)
  \/ Continuations
  \/ WorkerSteps

\* Every store request returns and every timer of the worker fires, however
\* often other callbacks run in between; continuations run.
SpecSettle ==
  /\ Init
  /\ [][NextSettle]_vars
  /\ SF_vars(WorkerSteps)
  /\ WF_vars(Continuations)

\* The transition of lead l to status s is queued or at the store.
Submitted(l, s) == \E i \in DOMAIN Pending : Pending[i].leadId = l /\ Pending[i].status = s

\* C34: every transition passed to enqueueConvosoUpdate is eventually taken
\* by the worker and its promise settles (the caller awaiting it resumes),
\* provided each store request returns; and the worker is never idle
\* (convosoQueueRunning false) while the transition queue is non-empty.
C34_EveryTransitionSettles ==
  /\ \A l \in LeadIds : \A s \in {"MQ", "MC"} : Submitted(l, s) ~> ~Submitted(l, s)
  /\ (pull.pc = "awaitMQ") ~> (pull.pc # "awaitMQ")
  /\ \A t \in TickIds : (tick[t].pc = "awaitMC") ~> (tick[t].pc # "awaitMC")
  /\ [](convosoRequestQueue # <<>> => convosoQueueRunning /\ worker.pc # "idle")

\* A transition was enqueued during the worker's sleep between two requests.
C34_Witness ==
  /\ worker.pc = "sleep"
  /\ convosoRequestQueue # <<>>

\* ----- the poll sweep without push notifications -----

\* Ticks, calls that end, and the poll sweep; no webhook arrives.
NextPoll ==
  \/ Scheduled
  \/ \E c \in CallIds : CallEnds(c)

\* The sweep visits every entry of the index again and again, and the status
\* query for a call does not fail for ever.
SpecPoll ==
  /\ InitReconcile
  /\ [][NextPoll]_vars
  /\ WF_vars(Scheduled)
  /\ \A c \in CallIds : SF_vars(PollQuery(c))
  /\ \A c \in CallIds : SF_vars(pollCall = c /\ PollAnswer(TRUE))

\* C35: if the call bound to a busy slot has ended and no push notification
\* arrives, the poll sweep eventually frees the slot.
C35_PollFreesEndedCall ==
  \A s \in Slots : \A c \in CallIds :
    (morganSlots[s].busy /\ morganSlots[s].callId = c /\ callState[c] = "ended")
      ~> ~morganSlots[s].busy

\* The sweep has freed the slot of a call that had ended.
C35_Witness ==
  /\ lastFree.called /\ lastFree.ret
  /\ lastFree.callId \in CallIds
  /\ callState[lastFree.callId] = "reported"
  /\ callSlot[lastFree.callId] \in Slots
  /\ ~morganSlots[callSlot[lastFree.callId]].busy

\* ----- the end-of-call report -----

\* Ticks, calls that end, the poll sweep, and end-of-call reports with or
\* without a lead id and a summary in their payload.
NextReport ==
  \/ Scheduled
  \/ \E c \in CallIds : CallEnds(c)
  \/ \E c \in CallIds \cup {UnknownCallId} : \E leadId \in LeadIds \cup {0} :
       \E summary \in BOOLEAN : VapiWebhookReport(c, leadId, summary)

SpecReport == InitReconcile /\ [][NextReport]_vars

\* The handler of this step recovered a lead id from the report.
ReportWithLead == lastReport'.handled /\ lastReport'.leadId # 0

\* C36 as stated: when a completion push carries a call id and a lead id
\* can be recovered from it, a terminal status transition for that lead is
\* submitted to the status synchronizer.
C36_TerminalTransitionSubmitted ==
  [][ ReportWithLead =>
        \E item \in Range(Pending') :
          /\ Pending' = Append(Pending, item)
          /\ item.leadId = lastReport'.leadId ]_vars

\* C36 as the code has it: an end-of-call report submits no status
\* transition, with or without a lead id: the transitions queued or at the
\* store and the worker stay as they are (the lead keeps the status of its
\* dequeue), the slot is freed by call id, and the summary is posted as a
\* note exactly when a lead id was recovered and a summary is present.
C36_ReportLeavesStatus ==
  [][ lastReport'.handled =>
        /\ UNCHANGED <<convosoRequestQueue, convosoQueueRunning, worker>>
        /\ lastFree'.called /\ lastFree'.callId = lastReport'.callId
        /\ lastReport'.note <=> (lastReport'.leadId # 0 /\ lastReport'.summary) ]_vars

\* A report with a lead id and a summary has freed the slot of its call
\* while the worker was busy with a transition.
C36_Witness ==
  /\ lastReport.handled
  /\ lastReport.leadId # 0
  /\ lastReport.note
  /\ lastFree.ret
  /\ worker.pc # "idle"

\* ----- the status transitions of a lead -----

\* This step submits the transition of lead l to status s.
SubmittedNow(l, s) ==
  \E item \in Range(Pending') :
    /\ Pending' = Append(Pending, item)
    /\ item.leadId = l
    /\ item.status = s

\* This step is the pull handler's enqueueMorganLead admitting lead l.
AdmittedNow(l) == pull.pc = "next" /\ l \notin morganQueuedIds /\ l \in morganQueuedIds'

\* This step is tick t dequeuing a lead with an id.
DequeuedNow(t) == DequeueStep(t) /\ tick'[t].lead.id # 0

\* C37 as stated: the transitions submitted for a lead are queued on
\* enqueue, dispatching on dequeue, and in-progress when the slot is marked
\* busy with the call id.
C37_ThreeTransitions ==
  [][ /\ \A l \in LeadIds : AdmittedNow(l) => SubmittedNow(l, "MQ")
      /\ \A t \in TickIds : DequeuedNow(t) => SubmittedNow(tick'[t].lead.id, "MC")
      /\ \A t \in TickIds :
           (LaunchOutstanding(t) /\ BoundByNewCall(t)) =>
             \E item \in Range(Pending') :
               Pending' = Append(Pending, item) /\ item.leadId = tick[t].lead.id ]_vars

\* C37 as the code has it: for a lead that is admitted, dequeued and launched
\* with a call id, the transitions submitted are queued (MQ) on enqueue and
\* then dispatching (MC) on dequeue, a lead being dequeued only after it was
\* admitted; marking the slot busy with the call id submits nothing.
C37_TwoTransitions ==
  [][ /\ \A l \in LeadIds :
           /\ AdmittedNow(l) => SubmittedNow(l, "MQ")
           /\ SubmittedNow(l, "MQ") => AdmittedNow(l)
           /\ SubmittedNow(l, "MC") =>
                \E t \in TickIds :
                  /\ DequeuedNow(t)
                  /\ tick'[t].lead.id = l
                  /\ l \in morganQueuedIds
      /\ \A t \in TickIds :
           /\ DequeuedNow(t) => SubmittedNow(tick'[t].lead.id, "MC")
           /\ (LaunchOutstanding(t) /\ BoundByNewCall(t)) => Pending' = Pending ]_vars

\* A lead admitted by the pull handler is in a call: its slot was marked busy
\* with the call id.
C37_Witness ==
  \E c \in CallIds :
    /\ callState[c] = "live"
    /\ callLead[c] \in LeadIds
    /\ morganCallToSlot[c] # NoSlot

\* C38: in every reachable state a slot is busy if and only if it holds a
\* call id, and if and only if it has a start time: markMorganSlotBusy,
\* freeMorganSlot and freeMorganSlotByCallId set or clear the three together,
\* for every interleaving of ticks and completion signals.
C38_BusyIffCallId ==
  \A s \in Slots :
    /\ morganSlots[s].busy <=> morganSlots[s].callId # NoCall
    /\ morganSlots[s].busy <=> morganSlots[s].startedAt

\* A slot is busy with a call id, a completion signal has been handled, and
\* a tick is about to free the slot of a launch that failed.
C38_Witness ==
  /\ \E s \in Slots : morganSlots[s].busy /\ morganSlots[s].callId # NoCall
  /\ \E c \in CallIds : callState[c] = "reported"
  /\ \E t \in TickIds : tick[t].pc \in {"freeNoCallId", "freeCatch"}

\* ----- launches outside the slot pool -----

\* POST /webhooks/convoso/new-lead and POST /debug/test-call: past the enable
\* gate, startOutboundCall is called without a phoneNumberId, so the gateway
\* takes the next origination id round-robin; ok: the platform created the
\* call.  The slot table and the index are not touched.
DirectLaunch(ok) ==
  /\ ~Urgent
  /\ morganEnabled
  /\ vapiPhoneNumberIds # <<>>
  /\ vapiPhoneNumberIndex < MaxLaunches
  /\ LET next == getNextVapiPhoneNumberId(vapiPhoneNumberIds, vapiPhoneNumberIndex) IN
     /\ vapiPhoneNumberIndex' = next.index
     /\ IF ok /\ \E c \in DOMAIN callState : callState[c] = "none"
        THEN /\ callState' = [callState EXCEPT ![NextCallId] = "live"]
             /\ callSlot' = [callSlot EXCEPT ![NextCallId] = next.id]
        ELSE UNCHANGED <<callState, callSlot>>
  /\ UNCHANGED <<morganQueue, morganQueuedIds, morganSlots, morganCallToSlot,
                 convosoRequestQueue, convosoQueueRunning, worker, tick, pull,
                 hydrate, pollCall, morganEnabled, callLead, lastFree,
                 morganQueuedIdsTimestamps, maxQueuedIds, lastSweep, tickLog, lastReport>>
  /\ UNCHANGED <<vapiPhoneNumberIds, lastVapi429At, launches, now>>

\* As InitReconcile; the slots and the gateway read the same
\* VAPI_PHONE_NUMBER_IDS.
InitDirect ==
  /\ \E m \in 0..MaxLeads :
       /\ morganQueue = [i \in 1..m |-> Lead(i, TRUE)]
       /\ morganQueuedIds = 1..m
  /\ morganSlots = [s \in Slots |-> FreeSlot]
  /\ morganCallToSlot = [c \in CallIds |-> NoSlot]
  /\ convosoRequestQueue = <<>>
  /\ convosoQueueRunning = FALSE
  /\ worker = IdleWorker
  /\ tick = [t \in TickIds |-> IdleTick]
  /\ pull = IdlePull
  /\ hydrate = "done"
  /\ pollCall = NoCall
  /\ morganEnabled = TRUE
  /\ callState = [c \in CallIds |-> "none"]
  /\ callSlot = [c \in CallIds |-> NoSlot]
  /\ callLead = [c \in CallIds |-> 0]
  /\ lastFree = NoFree
  /\ morganQueuedIdsTimestamps = <<>>
  /\ maxQueuedIds = NoCeiling
  /\ lastSweep = NoSweep
  /\ lastReport = NoReport
  /\ tickLog = <<>>
  /\ vapiPhoneNumberIds = [s \in Slots |-> s]
  /\ GatewayAtLoad

\* One tick at a time launching from the slot pool, direct launches, calls
\* that end and their end-of-call reports.
NextDirect ==
  \/ \E t \in {1} : TickStart(t)
  \/ \E t \in TickIds : TickLoop(t)
  \/ \E t \in TickIds : TickDequeued(t)
  \/ \E t \in TickIds : LaunchCallId(t)
  \/ \E ok \in BOOLEAN : WorkerResponse(ok)
  \/ WorkerWake
  \/ \E ok \in BOOLEAN : DirectLaunch(ok)
  \/ \E c \in CallIds : CallEnds(c)
  \/ \E c \in CallIds \cup {UnknownCallId} : VapiWebhook(c)

SpecDirect == InitDirect /\ [][NextDirect]_vars

\* C39: each origination identity (phone number id) carries at most one
\* in-progress call at a time across all launch paths, the direct launches of
\* the new-lead webhook and of the test-call route included.
C39_OneCallPerOrigination ==
  \A c, d \in CallIds :
    (callState[c] = "live" /\ callState[d] = "live" /\ callSlot[c] = callSlot[d])
      => c = d

====
